---- MODULE Spec2Model ----
(***************************************************************************)
(* Cycloidal reducer design tool: the geometry engine of                   *)
(* src/utils/geometry.ts and the components that call it.                  *)
(*                                                                         *)
(* Numbers.  The program computes in IEEE doubles; the model computes in   *)
(* fixed point over the integers:                                          *)
(*   - a length (pinCircleRadius, pinRadius, eccentricity, holeRadius,     *)
(*     tolerance, ...) is an integer number of micrometres, 1 mm = 1000;   *)
(*   - a sine, a cosine or a component of a unit vector is an integer      *)
(*     number of thousandths;                                              *)
(*   - a product of the two (a locus coordinate, a derivative, a tangent   *)
(*     magnitude, a point coordinate) is therefore in units of 1e-6 mm.    *)
(* An angle t = (i / resolution) * 2 * pi is held as a number of twelfths  *)
(* of a turn, so resolution ranges over the divisors of 12.                *)
(*                                                                         *)
(* The specifications share the variables, each following one component    *)
(* over the parameters that matter to it.  SpecProfile is the Visualizer   *)
(* and generateCycloidProfile, SpecPath the Visualizer and getDiscSVGPath  *)
(* under the sliders of the output stage, SpecPhysics the Analysis section *)
(* of the Controls panel and calculatePhysicsMetrics: the three run over   *)
(* lengths of a few micrometres, so that squares and cubes of lengths stay *)
(* within the 32-bit integers of TLC (the curves scale with their lengths, *)
(* only the 1e-6 mm threshold does not).  SpecQuality is the Controls      *)
(* panel and getGeometricQuality, from DEFAULT_PARAMS through sliders,     *)
(* presets, recommended fixes and generated designs, at millimetre scale.  *)
(* SpecExport is the DXF download over the small disc, SpecAssistant and   *)
(* SpecChat are the AI panel and its service (the Generator and Analyze    *)
(* tabs, and the chat), and SpecAnimation is the animation loop of the     *)
(* Visualizer.                                                             *)
(***************************************************************************)
EXTENDS Integers, Sequences, FiniteSets, TLC

VARIABLES
    params,             \* App: const [params, setParams] = useState(DEFAULT_PARAMS)
    profilePoints,      \* Visualizer: useMemo(() => generateCycloidProfile(params))
    theoreticalPoints,  \* Visualizer: useMemo(() => generateCycloidProfile(params, 0))
    call,               \* a direct call of generateCycloidProfile(params, override): override and result
    quality,            \* Controls: const quality = getGeometricQuality(params)
    edits,              \* the number of operations done on the Controls panel
    physics,            \* Controls: const physics = calculatePhysicsMetrics(params)
    analysis,           \* Controls: the readouts of the Analysis section
    discPathString,     \* Visualizer: getDiscSVGPath(profilePoints, params)
    theoreticalPathString, \* Visualizer: getDiscSVGPath(theoreticalPoints, params)
    download,           \* App.handleDownload: its locals profilePoints, pinPoints and dxfContent
    apiKey,             \* geminiService: process.env.API_KEY is set
    assistant,          \* AIAssistant: its state (activeTab, analysis, loading, chat..., gen...)
    pending,            \* AIAssistant: the handlers suspended at their await, oldest first
    settled,            \* geminiService: how the latest call of an advisory function settled
    animate,            \* App: const [animate, setAnimate] = useState(false)
    viewMode,           \* App: const [viewMode, setViewMode] = useState('standard')
    mounted,            \* the Visualizer is mounted
    effects,            \* Visualizer: the closures of its effect, one for every run
    frames              \* the browser: the next requestAnimationFrame handle and the callbacks pending

vars == <<params, profilePoints, theoreticalPoints, call, quality, edits,
          physics, analysis, discPathString, theoreticalPathString, download,
          apiKey, assistant, pending, settled,
          animate, viewMode, mounted, effects, frames>>

\* the variables of the AI panel and of its service
assistantVars == <<apiKey, assistant, pending, settled>>

\* the variables of the animation of the Visualizer
animationVars == <<animate, viewMode, mounted, effects, frames>>

(***************************************************************************)
(* Bounds of the model.                                                    *)
(***************************************************************************)
MaxPinCount == 5

\* the operations on the Controls panel a behaviour goes through: the fixes
\* feed on one another (a larger radius allows a larger eccentricity, which
\* asks for a larger radius), so the parameters have no bound of their own
MaxEdits == 3

(***************************************************************************)
(* Arithmetic of the runtime.                                              *)
(***************************************************************************)
\* An optional argument: Undefined when the caller leaves it out, Given(v)
\* when the caller passes the number v.
Undefined == <<>>

Given(v) == <<v>>

Abs(x) == IF x < 0 THEN -x ELSE x

Max(a, b) == IF a >= b THEN a ELSE b

\* a / b of two numbers, rounded to the nearest integer (ties away from zero), b > 0
RoundDiv(a, b) ==
    IF a >= 0 THEN (2 * a + b) \div (2 * b)
              ELSE -((2 * (-a) + b) \div (2 * b))

RECURSIVE SqrtSearch(_, _, _)
SqrtSearch(n, lo, hi) ==
    IF lo >= hi THEN lo
    ELSE LET mid == (lo + hi + 1) \div 2
         IN  IF mid * mid <= n THEN SqrtSearch(n, mid, hi)
                               ELSE SqrtSearch(n, lo, mid - 1)

\* Math.sqrt, rounded down to an integer
Sqrt(n) == SqrtSearch(n, 0, 46340)

\* Math.cos and Math.sin of an angle of a twelfths of a turn, in thousandths
CosTable == <<1000, 866, 500, 0, -500, -866, -1000, -866, -500, 0, 500, 866>>

Cos(a) == CosTable[(a % 12) + 1]

Sin(a) == CosTable[((a + 9) % 12) + 1]

(***************************************************************************)
(* generateCycloidProfile (src/utils/geometry.ts:13-61)                    *)
(***************************************************************************)
\* const t = (i / resolution) * 2 * Math.PI, in twelfths of a turn
SampleAngle(i, resolution) == (i * 12) \div resolution

\* step 1 of the loop body: position of the pin centre (the locus)
LocusX(p, t) == p.pinCircleRadius * Cos(t) - p.eccentricity * Cos(p.pinCount * t)

LocusY(p, t) == p.pinCircleRadius * Sin(t) - p.eccentricity * Sin(p.pinCount * t)

\* step 2 of the loop body: the derivatives
DxDt(p, t) == -p.pinCircleRadius * Sin(t) + p.eccentricity * p.pinCount * Sin(p.pinCount * t)

DyDt(p, t) == p.pinCircleRadius * Cos(t) - p.eccentricity * p.pinCount * Cos(p.pinCount * t)

\* const len = Math.sqrt(dxdt * dxdt + dydt * dydt), in units of 1e-6 mm
TangentLen(p, t) ==
    LET dxdt == DxDt(p, t)
        dydt == DyDt(p, t)
    IN  Sqrt(dxdt * dxdt + dydt * dydt)

\* if (len < 1e-6 || isNaN(len)) continue;   len is in units of 1e-6 mm
Degenerate(len) == len < 1

\* const nx = -dydt / len; const ny = dxdt / len;   in thousandths
NormalX(dydt, len) == RoundDiv(-dydt * 1000, len)

NormalY(dxdt, len) == RoundDiv(dxdt * 1000, len)

\* a slip: overrideTolerance ? overrideTolerance : tolerance, which takes 0 for absent
EffectiveToleranceTruthy(p, overrideTolerance) ==
    IF overrideTolerance # Undefined /\ overrideTolerance[1] # 0
    THEN overrideTolerance[1] ELSE p.tolerance

\* const effectiveTolerance = overrideTolerance !== undefined ? overrideTolerance : tolerance
EffectiveTolerance(p, overrideTolerance) ==
    IF overrideTolerance # Undefined THEN overrideTolerance[1] ELSE p.tolerance

\* a slip: the tolerance taken off the pin radius instead of added to it
OffsetDistanceSubtracted(p, overrideTolerance) ==
    p.pinRadius - EffectiveTolerance(p, overrideTolerance)

\* const r = pinRadius + effectiveTolerance
OffsetDistance(p, overrideTolerance) == p.pinRadius + EffectiveTolerance(p, overrideTolerance)

\* points.push({ x: sx + r * nx, y: sy + r * ny, nx, ny })
ProfilePoint(p, r, t, len) ==
    LET nx == NormalX(DyDt(p, t), len)
        ny == NormalY(DxDt(p, t), len)
    IN  [x |-> LocusX(p, t) + r * nx, y |-> LocusY(p, t) + r * ny, nx |-> nx, ny |-> ny]

\* a slip: the last sample, t = 2 * pi, left out
LoopContinuesExclusive(i, resolution) == i < resolution

\* the loop condition of for (let i = 0; i <= resolution; i++)
LoopContinues(i, resolution) == i <= resolution

RECURSIVE ProfileLoop(_, _, _, _)
ProfileLoop(p, r, i, points) ==
    IF ~LoopContinues(i, p.resolution) THEN points
    ELSE LET t == SampleAngle(i, p.resolution)
             len == TangentLen(p, t)
         IN  IF Degenerate(len)
             THEN ProfileLoop(p, r, i + 1, points)
             ELSE ProfileLoop(p, r, i + 1, Append(points, ProfilePoint(p, r, t, len)))

generateCycloidProfile(p, overrideTolerance) ==
    ProfileLoop(p, OffsetDistance(p, overrideTolerance), 0, <<>>)

(***************************************************************************)
(* calculatePhysicsMetrics (src/utils/geometry.ts:91-149)                  *)
(*                                                                         *)
(* A pressure angle lies between 0 and 90 degrees and is held as the pair  *)
(* (opp, adj) of the two non-negative arguments of Math.atan2 it is the    *)
(* arc tangent of: 0 degrees is opp = 0, 45 degrees is opp = adj, 90       *)
(* degrees is adj = 0 < opp, and a > b is a.opp * b.adj > b.opp * a.adj.   *)
(* The code divides both arguments by pinCircleRadius (K = E * N / R); the *)
(* pair keeps them multiplied by it, which leaves the angle as it is for   *)
(* pinCircleRadius > 0.  A curvature radius is an integer number of tenths *)
(* of a micrometre.                                                        *)
(***************************************************************************)
\* Number.MAX_VALUE, the largest finite number
MAX_VALUE == 2000000000

\* the number every finite number is below
Infinity == MAX_VALUE + 1

\* the number no comparison holds of
NaN == MAX_VALUE + 2

\* Math.atan2(y, x) for y >= 0 and x >= 0; Math.atan2(0, x) is 0 for every x >= 0
Atan2(y, x) == IF y = 0 THEN [opp |-> 0, adj |-> 1] ELSE [opp |-> y, adj |-> x]

\* let maxPressureAngle = 0
ZeroAngle == [opp |-> 0, adj |-> 1]

\* a > b of two pressure angles
AngleGreater(a, b) == a.opp * b.adj > b.opp * a.adj

\* const dxdt, dydt, len of the physics loop (geometry.ts:101-103)
PhysicsTangentLen(p, t) ==
    LET dxdt == -p.pinCircleRadius * Sin(t)
                + p.eccentricity * p.pinCount * Sin(p.pinCount * t)
        dydt == p.pinCircleRadius * Cos(t)
                - p.eccentricity * p.pinCount * Cos(p.pinCount * t)
    IN  Sqrt(dxdt * dxdt + dydt * dydt)

\* if (len < 1e-6) continue;   len is in units of 1e-6 mm
PhysicsDegenerate(len) == len < 1

\* a slip: the signed arguments given to Math.atan2
PressureAngleSigned(p, t) ==
    LET num == p.eccentricity * p.pinCount * Sin(p.pinCount * t)
        den == 1000 * p.pinCircleRadius
               - p.eccentricity * p.pinCount * Cos(p.pinCount * t)
    IN  [opp |-> num, adj |-> den]

\* const K = (E * N) / R; const num = K * Math.sin(N * t);
\* const den = 1 - K * Math.cos(N * t);
\* const pressureRad = Math.atan2(Math.abs(num), Math.abs(den))
PressureAngle(p, t) ==
    LET num == p.eccentricity * p.pinCount * Sin(p.pinCount * t)
        den == 1000 * p.pinCircleRadius
               - p.eccentricity * p.pinCount * Cos(p.pinCount * t)
    IN  Atan2(Abs(num), Abs(den))

\* if (pressureDeg > maxPressureAngle) maxPressureAngle = pressureDeg
MaxPressure(maxPressureAngle, pressureDeg) ==
    IF AngleGreater(pressureDeg, maxPressureAngle) THEN pressureDeg ELSE maxPressureAngle

\* numerator / denominator of two numbers
Quotient(numerator, denominator) ==
    IF denominator = 0
    THEN (IF numerator > 0 THEN Infinity ELSE IF numerator < 0 THEN -Infinity ELSE NaN)
    ELSE IF denominator > 0 THEN RoundDiv(numerator, denominator)
    ELSE RoundDiv(-numerator, -denominator)

\* const phi = (N - 1) * t;
\* const term1 = R * R + E * E * N * N - 2 * R * E * N * Math.cos(phi);
\* const numerator = Math.pow(term1, 1.5);
\* const denominator = R * R + E * E * N * N * N - R * E * N * (N + 1) * Math.cos(phi);
\* const rho = numerator / denominator;     term1 and denominator in thousandths
\* of a square micrometre, the square root of term1 and rho in tenths of a micrometre
Rho(p, t) ==
    LET N == p.pinCount
        R == p.pinCircleRadius
        E == p.eccentricity
        phi == (N - 1) * t
        term1 == 1000 * R * R + 1000 * E * E * N * N - 2 * R * E * N * Cos(phi)
        numerator == term1 * Sqrt(term1 \div 10)
        denominator == 1000 * R * R + 1000 * E * E * N * N * N
                       - R * E * N * (N + 1) * Cos(phi)
    IN  Quotient(numerator, denominator)

\* const surfaceCurvature = rho - r, in tenths of a micrometre
SurfaceCurvature(p, t) ==
    LET rho == Rho(p, t)
    IN  IF Abs(rho) > MAX_VALUE THEN rho ELSE rho - 10 * p.pinRadius

\* a slip: the signed values compared, so that the most negative one is kept
CloserToZeroSigned(surfaceCurvature, minCurvatureRadius) ==
    surfaceCurvature # NaN /\ surfaceCurvature < minCurvatureRadius

\* Math.abs(surfaceCurvature) < Math.abs(minCurvatureRadius)
CloserToZero(surfaceCurvature, minCurvatureRadius) ==
    surfaceCurvature # NaN /\ Abs(surfaceCurvature) < Abs(minCurvatureRadius)

\* if (Math.abs(surfaceCurvature) < Math.abs(minCurvatureRadius))
\*     minCurvatureRadius = surfaceCurvature
MinCurvature(minCurvatureRadius, surfaceCurvature) ==
    IF CloserToZero(surfaceCurvature, minCurvatureRadius)
    THEN surfaceCurvature ELSE minCurvatureRadius

\* a slip: the toleranced pin radius of the profile generator used for the offset
PhysicsOffsetToleranced(p) == p.pinRadius + p.tolerance

\* the offset r of the physics loop: pinRadius: r in the destructuring
PhysicsOffset(p) == p.pinRadius

\* points.push({ x: sx + r * nx, y: sy + r * ny, nx, ny,
\*               pressureAngle: pressureDeg, curvatureRadius: surfaceCurvature })
PhysicsPoint(p, t, len, pressureDeg, surfaceCurvature) ==
    LET dxdt == -p.pinCircleRadius * Sin(t)
                + p.eccentricity * p.pinCount * Sin(p.pinCount * t)
        dydt == p.pinCircleRadius * Cos(t)
                - p.eccentricity * p.pinCount * Cos(p.pinCount * t)
        nx == RoundDiv(-dydt * 1000, len)
        ny == RoundDiv(dxdt * 1000, len)
        sx == p.pinCircleRadius * Cos(t) - p.eccentricity * Cos(p.pinCount * t)
        sy == p.pinCircleRadius * Sin(t) - p.eccentricity * Sin(p.pinCount * t)
        r == PhysicsOffset(p)
    IN  [x |-> sx + r * nx, y |-> sy + r * ny, nx |-> nx, ny |-> ny,
         pressureAngle |-> pressureDeg, curvatureRadius |-> surfaceCurvature]

\* the loop for (let i = 0; i <= resolution; i++) of geometry.ts:98-142
RECURSIVE PhysicsLoop(_, _, _)
PhysicsLoop(p, i, acc) ==
    IF ~(i <= p.resolution) THEN acc
    ELSE LET t == SampleAngle(i, p.resolution)
             len == PhysicsTangentLen(p, t)
         IN  IF PhysicsDegenerate(len)
             THEN PhysicsLoop(p, i + 1, acc)
             ELSE LET pressureDeg == PressureAngle(p, t)
                      surfaceCurvature == SurfaceCurvature(p, t)
                  IN  PhysicsLoop(p, i + 1,
                          [minCurvatureRadius |->
                               MinCurvature(acc.minCurvatureRadius, surfaceCurvature),
                           maxPressureAngle |->
                               MaxPressure(acc.maxPressureAngle, pressureDeg),
                           points |-> Append(acc.points,
                               PhysicsPoint(p, t, len, pressureDeg, surfaceCurvature))])

calculatePhysicsMetrics(p) ==
    LET metrics == PhysicsLoop(p, 0, [minCurvatureRadius |-> MAX_VALUE,
                                      maxPressureAngle |-> ZeroAngle,
                                      points |-> <<>>])
    IN  [computed |-> TRUE,
         minCurvatureRadius |-> metrics.minCurvatureRadius,
         maxPressureAngle |-> metrics.maxPressureAngle,
         points |-> metrics.points]

(***************************************************************************)
(* getDiscSVGPath (src/utils/geometry.ts:64-89)                            *)
(*                                                                         *)
(* The path string is held as the sequence of its commands, each with its  *)
(* letter and its numbers: a template literal prints a number as the       *)
(* shortest decimal that reads back as the same number.  Coordinates and   *)
(* radii are in units of 1e-6 mm, as the coordinates of a profile point.   *)
(***************************************************************************)
\* d3.line().x(d => d.x).y(d => d.y).curve(d3.curveLinearClosed): a move to
\* the first point, a line to each further point, and a close; null, which
\* the code turns into "", for no points
LineGenerator(points) ==
    IF Len(points) = 0 THEN <<>>
    ELSE [k \in 1 .. Len(points) |->
              [op |-> IF k = 1 THEN "M" ELSE "L", x |-> points[k].x, y |-> points[k].y]]
         \o <<[op |-> "Z"]>>

\* a slip: the clearance of the hole without the eccentricity of the orbit
HoleRadiusNoOrbit(p) == 1000 * (p.outputPinRadius + p.holeTolerance)

\* const holeR = params.outputPinRadius + params.eccentricity + params.holeTolerance
HoleRadius(p) == 1000 * (p.outputPinRadius + p.eccentricity + p.holeTolerance)

\* a slip: the second arc swept the other way round, back along the first
HoleCommandsOpposite(p, i) ==
    LET holeR == HoleRadius(p)
        holeDist == p.outputPinCircleRadius
        angle == SampleAngle(i, p.outputPinCount)
        cx == holeDist * Cos(angle)
        cy == holeDist * Sin(angle)
    IN  <<[op |-> "M", x |-> cx + holeR, y |-> cy],
          [op |-> "A", rx |-> holeR, ry |-> holeR, rotation |-> 0, largeArc |-> 1,
           sweep |-> 0, x |-> cx - holeR, y |-> cy],
          [op |-> "A", rx |-> holeR, ry |-> holeR, rotation |-> 0, largeArc |-> 1,
           sweep |-> 1, x |-> cx + holeR, y |-> cy]>>

\* the body of the loop for (let i = 0; i < numHoles; i++): the three
\* commands added for hole i
HoleCommands(p, i) ==
    LET holeR == HoleRadius(p)
        numHoles == p.outputPinCount
        holeDist == p.outputPinCircleRadius
        angle == SampleAngle(i, numHoles)
        cx == holeDist * Cos(angle)
        cy == holeDist * Sin(angle)
    IN  <<[op |-> "M", x |-> cx + holeR, y |-> cy],
          [op |-> "A", rx |-> holeR, ry |-> holeR, rotation |-> 0, largeArc |-> 1,
           sweep |-> 0, x |-> cx - holeR, y |-> cy],
          [op |-> "A", rx |-> holeR, ry |-> holeR, rotation |-> 0, largeArc |-> 1,
           sweep |-> 0, x |-> cx + holeR, y |-> cy]>>

RECURSIVE HoleLoop(_, _, _)
HoleLoop(p, i, pathD) ==
    IF ~(i < p.outputPinCount) THEN pathD
    ELSE HoleLoop(p, i + 1, pathD \o HoleCommands(p, i))

getDiscSVGPath(profilePts, p) == HoleLoop(p, 0, LineGenerator(profilePts))

(***************************************************************************)
(* generatePinPoints (src/utils/geometry.ts:151-162)                       *)
(***************************************************************************)
RECURSIVE PinLoop(_, _, _)
PinLoop(p, i, pins) ==
    IF ~(i < p.pinCount) THEN pins
    ELSE LET angle == SampleAngle(i, p.pinCount)
         IN  PinLoop(p, i + 1,
                     Append(pins, [x |-> p.pinCircleRadius * Cos(angle),
                                   y |-> p.pinCircleRadius * Sin(angle)]))

generatePinPoints(p) == PinLoop(p, 0, <<>>)

(***************************************************************************)
(* generateDXF (src/utils/dxf.ts, kept as src/unnamed/part_000)            *)
(*                                                                         *)
(* The document is held as the sequence of its lines.  A line the code     *)
(* writes as a literal word or group code is the record of its text; a     *)
(* line that is a decimal number is the record of its sign, its whole part *)
(* and the digits it shows after the point, so that the number of          *)
(* decimals printed is part of the line.  Coordinates are in units of      *)
(* 1e-6 mm, and toFixed(4) rounds them to a whole number of 1e-4 mm.       *)
(***************************************************************************)
\* a line that is a word or a group code
Line(text) == [text |-> text]

\* Number.prototype.toFixed(4) of v / 1e6: the sign of a negative number,
\* then the magnitude rounded to four decimals, halves upwards
ToFixed4(v) ==
    LET n == (Abs(v) + 50) \div 100
    IN  [neg |-> v < 0, whole |-> n \div 10000,
         decimals |-> <<(n \div 1000) % 10, (n \div 100) % 10, (n \div 10) % 10, n % 10>>]

\* the literal 0.0 of lines 12 and 20
ZeroPointZero == [neg |-> FALSE, whole |-> 0, decimals |-> <<0>>]

\* let dxf = "0\nSECTION\n2\nENTITIES\n"
DxfHeader == <<Line("0"), Line("SECTION"), Line("2"), Line("ENTITIES")>>

\* a slip: the polyline flagged open (70 = 0)
DxfPolylineOpen ==
    <<Line("0"), Line("POLYLINE"), Line("8"), Line("CycloidProfile"),
      Line("66"), Line("1"), Line("70"), Line("0")>>

\* dxf += "0\nPOLYLINE\n8\nCycloidProfile\n66\n1\n70\n1\n"
DxfPolyline ==
    <<Line("0"), Line("POLYLINE"), Line("8"), Line("CycloidProfile"),
      Line("66"), Line("1"), Line("70"), Line("1")>>

\* the body of points.forEach: the lines of one vertex
DxfVertex(pt) ==
    <<Line("0"), Line("VERTEX"), Line("8"), Line("CycloidProfile"),
      Line("10"), ToFixed4(pt.x), Line("20"), ToFixed4(pt.y),
      Line("30"), ZeroPointZero>>

RECURSIVE DxfVertexLoop(_, _, _)
DxfVertexLoop(points, k, dxf) ==
    IF k > Len(points) THEN dxf
    ELSE DxfVertexLoop(points, k + 1, dxf \o DxfVertex(points[k]))

\* a slip: the nominal radius of the hole, without its clearance
EffectiveHoleRadiusNominal(p) == 1000 * p.holeRadius

\* const effectiveHoleRadius = params.holeRadius + params.holeTolerance
EffectiveHoleRadius(p) == 1000 * (p.holeRadius + p.holeTolerance)

\* lines 19-21: the circle of the centre hole
DxfCircle(p) ==
    <<Line("0"), Line("CIRCLE"), Line("8"), Line("CenterHole"),
      Line("10"), ZeroPointZero, Line("20"), ZeroPointZero, Line("30"), ZeroPointZero,
      Line("40"), ToFixed4(EffectiveHoleRadius(p))>>

\* dxf += "0\nENDSEC\n0\nEOF\n"
DxfFooter == <<Line("0"), Line("ENDSEC"), Line("0"), Line("EOF")>>

generateDXF(points, holes, p) ==
    DxfVertexLoop(points, 1, DxfHeader \o DxfPolyline)
        \o <<Line("0"), Line("SEQEND")>> \o DxfCircle(p) \o DxfFooter

(***************************************************************************)
(* The Visualizer and the parameters it is given.                          *)
(***************************************************************************)
\* src/constants.ts:4-18, lengths in micrometres
DEFAULT_PARAMS ==
    [pinCount |-> 12, pinCircleRadius |-> 50000, pinRadius |-> 5000,
     eccentricity |-> 1500, holeRadius |-> 10000, resolution |-> 720,
     tolerance |-> 150, holeTolerance |-> 100,
     outputPinCount |-> 6, outputPinRadius |-> 5000,
     outputPinCircleRadius |-> 25000, driveConfig |-> "housingFixed"]

NoCall == [called |-> FALSE]

NoQuality == [computed |-> FALSE]

NoPhysics == [computed |-> FALSE]

NoAnalysis == [computed |-> FALSE]

NoDownload == [downloaded |-> FALSE]

\* null
Null == <<>>

\* the AI panel while showAI is false: AIAssistant is not rendered
NotMounted == [mounted |-> FALSE]

\* no advisory function has been called
NoneSettled == [fn |-> "none", kind |-> "none"]

AssistantClosed ==
    /\ apiKey = FALSE
    /\ assistant = NotMounted
    /\ pending = <<>>
    /\ settled = NoneSettled

\* no animation frame requested yet: the first handle the browser gives is 1
NoFrames == [next |-> 1, pending |-> {}]

\* the Visualizer where its animation is not followed: animate stays false
AnimationStill ==
    /\ animate = FALSE
    /\ viewMode = "standard"
    /\ mounted = TRUE
    /\ effects = <<>>
    /\ frames = NoFrames

\* The values the profile is sampled for.  They are small so that the
\* squares of the derivatives stay within the 32-bit integers of TLC; the
\* profile scales with its lengths, only the 1e-6 mm threshold does not.
ProfilePinCounts == 4 .. MaxPinCount

ProfileRadii == {8, 10}

ProfileEccentricities == {0, 1, 2}

ProfilePinRadii == {1, 2}

ProfileTolerances == {0, 1}

Resolutions == {n \in 1 .. 12 : 12 % n = 0}

Overrides == {Undefined, Given(0), Given(1), Given(3)}

ProfileFields ==
    [pinCount : ProfilePinCounts, pinCircleRadius : ProfileRadii,
     pinRadius : ProfilePinRadii, eccentricity : ProfileEccentricities,
     tolerance : ProfileTolerances, resolution : Resolutions]

WithFields(base, f) ==
    [base EXCEPT !.pinCount = f.pinCount, !.pinCircleRadius = f.pinCircleRadius,
                 !.pinRadius = f.pinRadius, !.eccentricity = f.eccentricity,
                 !.tolerance = f.tolerance, !.resolution = f.resolution]

ProfileParams == {WithFields(DEFAULT_PARAMS, f) : f \in ProfileFields}

\* Visualizer.tsx:20-21, the two memoised profiles of a render, and
\* Visualizer.tsx:95-96, the two paths its effect draws from them
VisualizerRender(p) ==
    /\ profilePoints' = generateCycloidProfile(p, Undefined)
    /\ theoreticalPoints' = generateCycloidProfile(p, Given(0))
    /\ discPathString' = getDiscSVGPath(profilePoints', p)
    /\ theoreticalPathString' = getDiscSVGPath(theoreticalPoints', p)

InitProfile ==
    /\ params \in ProfileParams
    /\ profilePoints = generateCycloidProfile(params, Undefined)
    /\ theoreticalPoints = generateCycloidProfile(params, Given(0))
    /\ discPathString = getDiscSVGPath(profilePoints, params)
    /\ theoreticalPathString = getDiscSVGPath(theoreticalPoints, params)
    /\ call = NoCall
    /\ download = NoDownload
    /\ AssistantClosed
    /\ AnimationStill
    /\ quality = NoQuality
    /\ edits = 0
    /\ physics = NoPhysics
    /\ analysis = NoAnalysis

\* Controls.tsx:65-67, update(key, value): setParams({...params, [key]: value}),
\* after which the Visualizer renders with the new parameters (no control
\* edits the resolution); the result of an earlier direct call and the
\* document of an earlier download were locals of their callers and are gone
UpdateProfile(key, value) ==
    /\ params[key] # value
    /\ params' = [params EXCEPT ![key] = value]
    /\ VisualizerRender(params')
    /\ call' = NoCall
    /\ download' = NoDownload
    /\ UNCHANGED <<quality, edits, physics, analysis>>
    /\ UNCHANGED assistantVars
    /\ UNCHANGED animationVars

\* a call generateCycloidProfile(params, overrideTolerance)
CallGenerate(overrideTolerance) ==
    /\ call' = [called |-> TRUE, overrideTolerance |-> overrideTolerance,
                points |-> generateCycloidProfile(params, overrideTolerance)]
    /\ call' # call
    /\ UNCHANGED <<params, profilePoints, theoreticalPoints, quality, edits,
                   physics, analysis, discPathString, theoreticalPathString,
                   download>>
    /\ UNCHANGED assistantVars
    /\ UNCHANGED animationVars

NextProfile ==
    \/ \E v \in ProfilePinCounts : UpdateProfile("pinCount", v)
    \/ \E v \in ProfileRadii : UpdateProfile("pinCircleRadius", v)
    \/ \E v \in ProfilePinRadii : UpdateProfile("pinRadius", v)
    \/ \E v \in ProfileEccentricities : UpdateProfile("eccentricity", v)
    \/ \E v \in ProfileTolerances : UpdateProfile("tolerance", v)
    \/ \E o \in Overrides : CallGenerate(o)

SpecProfile == InitProfile /\ [][NextProfile]_vars

(***************************************************************************)
(* The Visualizer under the sliders of the output stage and of the         *)
(* clearances, over one small disc.                                        *)
(***************************************************************************)
\* Controls.tsx:189-197, the pin counts of the slider that divide the turn
\* into whole twelfths
OutputPinCounts == {n \in 3 .. 12 : 12 % n = 0}

OutputPinRadii == {1, 2}

OutputPinCircleRadii == {4, 5}

HoleTolerances == {0, 1}

PathEccentricities == {0, 2}

PathResolutions == {3, 12}

PathFields ==
    [outputPinCount : OutputPinCounts, outputPinRadius : OutputPinRadii,
     outputPinCircleRadius : OutputPinCircleRadii, holeTolerance : HoleTolerances,
     eccentricity : PathEccentricities, tolerance : ProfileTolerances,
     resolution : PathResolutions]

\* a disc of 4 pins on a circle of 8 micrometres
PathParams ==
    {[DEFAULT_PARAMS EXCEPT !.pinCount = 4, !.pinCircleRadius = 8, !.pinRadius = 1,
          !.outputPinCount = f.outputPinCount, !.outputPinRadius = f.outputPinRadius,
          !.outputPinCircleRadius = f.outputPinCircleRadius,
          !.holeTolerance = f.holeTolerance, !.eccentricity = f.eccentricity,
          !.tolerance = f.tolerance, !.resolution = f.resolution] : f \in PathFields}

InitPath ==
    /\ params \in PathParams
    /\ profilePoints = generateCycloidProfile(params, Undefined)
    /\ theoreticalPoints = generateCycloidProfile(params, Given(0))
    /\ discPathString = getDiscSVGPath(profilePoints, params)
    /\ theoreticalPathString = getDiscSVGPath(theoreticalPoints, params)
    /\ call = NoCall
    /\ download = NoDownload
    /\ AssistantClosed
    /\ AnimationStill
    /\ quality = NoQuality
    /\ edits = 0
    /\ physics = NoPhysics
    /\ analysis = NoAnalysis

NextPath ==
    \/ \E v \in OutputPinCounts : UpdateProfile("outputPinCount", v)
    \/ \E v \in OutputPinRadii : UpdateProfile("outputPinRadius", v)
    \/ \E v \in OutputPinCircleRadii : UpdateProfile("outputPinCircleRadius", v)
    \/ \E v \in HoleTolerances : UpdateProfile("holeTolerance", v)
    \/ \E v \in PathEccentricities : UpdateProfile("eccentricity", v)
    \/ \E v \in ProfileTolerances : UpdateProfile("tolerance", v)

SpecPath == InitPath /\ [][NextPath]_vars

(***************************************************************************)
(* getGeometricQuality (src/utils/geometry.ts:186-245)                     *)
(*                                                                         *)
(* A quotient the code compares or rounds is kept as numerator and         *)
(* denominator: x > n/d is x * d > n, and toFixed rounds n/d to the        *)
(* nearest multiple of its last digit.  1.5 is 3/2, 0.95 is 19/20, 0.9 is  *)
(* 9/10, and Math.PI is 22/7.                                           *)
(***************************************************************************)
\* the value of the last of `digits` decimals of a length in mm, in micrometres
LastDigit(digits) == IF digits = 1 THEN 100 ELSE 10

\* parseFloat((num / den).toFixed(digits)) for num / den >= 0: the nearest
\* multiple of the last digit, a tie going up
ToFixed(num, den, digits) ==
    LET step == LastDigit(digits)
    IN  step * ((2 * num + step * den) \div (2 * step * den))

\* const maxSafeEccentricity = pinCircleRadius / (1.5 * pinCount);
\* if (eccentricity > maxSafeEccentricity)
EccentricityTooHigh(p) == p.eccentricity * 3 * p.pinCount > 2 * p.pinCircleRadius

\* const safeE = parseFloat((pinCircleRadius / (2.0 * pinCount)).toFixed(2))
SafeE(p) == ToFixed(p.pinCircleRadius, 2 * p.pinCount, 2)

\* const safeR = parseFloat((eccentricity * 2.0 * pinCount).toFixed(1))
SafeR(p) == ToFixed(p.eccentricity * 2 * p.pinCount, 1, 1)

\* const pinSpacing = (2 * Math.PI * pinCircleRadius) / pinCount
PinSpacingNum(p) == 2 * 22 * p.pinCircleRadius

PinSpacingDen(p) == 7 * p.pinCount

\* if (pinRadius * 2 > pinSpacing * 0.95)
PinsTooLarge(p) == p.pinRadius * 2 * PinSpacingDen(p) * 20 > PinSpacingNum(p) * 19

\* const safePinR = parseFloat(((pinSpacing * 0.9) / 2).toFixed(2))
SafePinR(p) == ToFixed(PinSpacingNum(p) * 9, PinSpacingDen(p) * 10 * 2, 2)

\* a slip: the stroke 2 * eccentricity taken off for every pin
ApproxInnerRadiusStroke(p) ==
    p.pinCircleRadius - (p.pinCount * 2 * p.eccentricity) - p.pinRadius

\* const approxInnerRadius = pinCircleRadius - (pinCount * eccentricity) - pinRadius
ApproxInnerRadius(p) == p.pinCircleRadius - (p.pinCount * p.eccentricity) - p.pinRadius

\* if (approxInnerRadius < holeRadius + 1.5)
WallTooThin(p) == ApproxInnerRadius(p) < p.holeRadius + 1500

\* const maxHole = Math.max(2, approxInnerRadius - 2.0);
\* const safeHole = parseFloat(maxHole.toFixed(1))
SafeHole(p) == ToFixed(Max(2000, ApproxInnerRadius(p) - 2000), 1, 1)

\* if (safeHole > 0) fixes.push(...)
HoleFixOffered(p) == SafeHole(p) > 0

EccentricityWarning(p) ==
    [text |-> "Eccentricity is too high for this radius.", args |-> <<p.eccentricity>>]

PinWarning == [text |-> "Pins are too large for spacing.", args |-> <<>>]

WallWarning == [text |-> "Wall thickness is critically low.", args |-> <<>>]

\* a slip: the second fix built on the parameters of the first, not on the input
EccentricityRuleChained(p) ==
    IF EccentricityTooHigh(p)
    THEN [warnings |-> <<EccentricityWarning(p)>>,
          fixes |-> <<[label |-> "Reduce Eccentricity", description |-> SafeE(p),
                       params |-> [p EXCEPT !.eccentricity = SafeE(p)]],
                      [label |-> "Increase Radius", description |-> SafeR(p),
                       params |-> [p EXCEPT !.eccentricity = SafeE(p),
                                            !.pinCircleRadius = SafeR(p)]]>>]
    ELSE [warnings |-> <<>>, fixes |-> <<>>]

\* geometry.ts:193-207
EccentricityRule(p) ==
    IF EccentricityTooHigh(p)
    THEN [warnings |-> <<EccentricityWarning(p)>>,
          fixes |-> <<[label |-> "Reduce Eccentricity", description |-> SafeE(p),
                       params |-> [p EXCEPT !.eccentricity = SafeE(p)]],
                      [label |-> "Increase Radius", description |-> SafeR(p),
                       params |-> [p EXCEPT !.pinCircleRadius = SafeR(p)]]>>]
    ELSE [warnings |-> <<>>, fixes |-> <<>>]

\* geometry.ts:209-218
PinRule(p) ==
    IF PinsTooLarge(p)
    THEN [warnings |-> <<PinWarning>>,
          fixes |-> <<[label |-> "Shrink Pins", description |-> SafePinR(p) * 2,
                       params |-> [p EXCEPT !.pinRadius = SafePinR(p)]]>>]
    ELSE [warnings |-> <<>>, fixes |-> <<>>]

\* a slip: the hole fix pushed after the if, whether or not the rule warned
WallRuleFixAlways(p) ==
    [warnings |-> IF WallTooThin(p) THEN <<WallWarning>> ELSE <<>>,
     fixes |-> <<[label |-> "Shrink Center Hole", description |-> SafeHole(p),
                  params |-> [p EXCEPT !.holeRadius = SafeHole(p)]]>>]

\* geometry.ts:220-232
WallRule(p) ==
    IF WallTooThin(p)
    THEN [warnings |-> <<WallWarning>>,
          fixes |-> IF HoleFixOffered(p)
                    THEN <<[label |-> "Shrink Center Hole", description |-> SafeHole(p),
                            params |-> [p EXCEPT !.holeRadius = SafeHole(p)]]>>
                    ELSE <<>>]
    ELSE [warnings |-> <<>>, fixes |-> <<>>]

\* f.label === fix.label && JSON.stringify(f.params) === JSON.stringify(fix.params)
SameFix(f, g) == f.label = g.label /\ f.params = g.params

\* a slip: index !== self.findIndex(...), which keeps the repeats and drops the firsts
UniqueFixesInverted(fixes) ==
    LET FirstIndex(i) == CHOOSE j \in 1 .. i :
                             /\ SameFix(fixes[j], fixes[i])
                             /\ \A k \in 1 .. j - 1 : ~SameFix(fixes[k], fixes[i])
        RECURSIVE Filter(_)
        Filter(i) == IF i > Len(fixes) THEN <<>>
                     ELSE (IF FirstIndex(i) # i THEN <<fixes[i]>> ELSE <<>>) \o Filter(i + 1)
    IN  Filter(1)

\* fixes.filter((fix, index, self) => index === self.findIndex(...))
UniqueFixes(fixes) ==
    LET FirstIndex(i) == CHOOSE j \in 1 .. i :
                             /\ SameFix(fixes[j], fixes[i])
                             /\ \A k \in 1 .. j - 1 : ~SameFix(fixes[k], fixes[i])
        Keep(i) == FirstIndex(i) = i
        RECURSIVE Filter(_)
        Filter(i) == IF i > Len(fixes) THEN <<>>
                     ELSE (IF Keep(i) THEN <<fixes[i]>> ELSE <<>>) \o Filter(i + 1)
    IN  Filter(1)

\* a slip: the rules short-circuited, a later rule run only when no earlier one fired
getGeometricQualityShortCircuit(p) ==
    LET e == EccentricityRule(p)
        n == IF Len(e.warnings) = 0 THEN PinRule(p) ELSE [warnings |-> <<>>, fixes |-> <<>>]
        w == IF Len(e.warnings) + Len(n.warnings) = 0
             THEN WallRule(p) ELSE [warnings |-> <<>>, fixes |-> <<>>]
        warnings == e.warnings \o n.warnings \o w.warnings
        fixes == e.fixes \o n.fixes \o w.fixes
    IN  [computed |-> TRUE,
         valid |-> Len(warnings) = 0,
         warnings |-> warnings,
         fixes |-> UniqueFixes(fixes)]

getGeometricQuality(p) ==
    LET e == EccentricityRule(p)
        n == PinRule(p)
        w == WallRule(p)
        warnings == e.warnings \o n.warnings \o w.warnings
        fixes == e.fixes \o n.fixes \o w.fixes
    IN  [computed |-> TRUE,
         valid |-> Len(warnings) = 0,
         warnings |-> warnings,
         fixes |-> UniqueFixes(fixes)]

(***************************************************************************)
(* The Controls panel: every change of the parameters renders it again,    *)
(* and a render evaluates getGeometricQuality(params).                     *)
(***************************************************************************)
\* src/constants.ts:20-78, lengths in micrometres
PRESETS ==
    <<DEFAULT_PARAMS,
      [DEFAULT_PARAMS EXCEPT !.pinCount = 10, !.pinCircleRadius = 22000,
           !.pinRadius = 3000, !.eccentricity = 1000, !.holeRadius = 5000,
           !.outputPinCount = 4, !.outputPinRadius = 2500,
           !.outputPinCircleRadius = 12000, !.tolerance = 100, !.holeTolerance = 100],
      [DEFAULT_PARAMS EXCEPT !.pinCount = 40, !.pinCircleRadius = 80000,
           !.pinRadius = 3000, !.eccentricity = 800, !.holeRadius = 12000,
           !.outputPinCount = 6, !.outputPinRadius = 5000,
           !.outputPinCircleRadius = 40000, !.resolution = 1440,
           !.tolerance = 50, !.holeTolerance = 50],
      [DEFAULT_PARAMS EXCEPT !.pinCount = 8, !.pinCircleRadius = 100000,
           !.pinRadius = 15000, !.eccentricity = 4000, !.holeRadius = 25000,
           !.outputPinCount = 6, !.outputPinRadius = 12000,
           !.outputPinCircleRadius = 50000, !.tolerance = 250, !.holeTolerance = 200]>>

\* values of the sliders of Controls.tsx:111-157 (the ends of their ranges)
SliderPinCounts == {4, 12}

SliderRadii == {10000, 100000}

SliderPinRadii == {1000, 5000}

SliderEccentricities == {100, 10000}

SliderHoleRadii == {2000, 50000}

\* geminiService.ts:107-119: the fields a generated design carries
GeneratedParams(pinCount, pinCircleRadius, pinRadius, eccentricity, holeRadius) ==
    [pinCount |-> pinCount, pinCircleRadius |-> pinCircleRadius,
     pinRadius |-> pinRadius, eccentricity |-> eccentricity,
     holeRadius |-> holeRadius, resolution |-> 720,
     tolerance |-> 150, holeTolerance |-> 100]

\* designs the advisory service may return: any numbers pass the schema
GeneratedDesigns ==
    {GeneratedParams(4, 40, 1, 10, 0),
     GeneratedParams(4, 20, 1, 5, 0),
     GeneratedParams(4, 8, 6, 1, 0),
     GeneratedParams(8, 100000, 1000, 10000, 2000),
     GeneratedParams(40, 100000, 8000, 1700, 2000)}

InitQuality ==
    /\ params = DEFAULT_PARAMS
    /\ quality = getGeometricQuality(params)
    /\ profilePoints = <<>>
    /\ theoreticalPoints = <<>>
    /\ call = NoCall
    /\ download = NoDownload
    /\ AssistantClosed
    /\ AnimationStill
    /\ edits = 0
    /\ physics = NoPhysics
    /\ analysis = NoAnalysis
    /\ discPathString = <<>>
    /\ theoreticalPathString = <<>>

\* what every handler of the panel ends with: setParams(newParams) and the
\* render that follows it (Controls.tsx:69)
SetParams(newParams) ==
    /\ edits < MaxEdits
    /\ edits' = edits + 1
    /\ params' = newParams
    /\ quality' = getGeometricQuality(newParams)
    /\ UNCHANGED <<profilePoints, theoreticalPoints, call,
                   physics, analysis, discPathString, theoreticalPathString,
                   download>>
    /\ UNCHANGED assistantVars
    /\ UNCHANGED animationVars

\* Controls.tsx:65-67, update(key, value) from a slider
UpdateQuality(key, value) ==
    /\ params[key] # value
    /\ SetParams([params EXCEPT ![key] = value])

\* Controls.tsx:84-87, a quick preset
SelectPreset(i) ==
    /\ params # PRESETS[i]
    /\ SetParams(PRESETS[i])

\* constants.ts:80-86, tolerance and holeTolerance of the machine settings
MANUFACTURING_PRESETS ==
    <<[name |-> "CNC Machining (ISO Fit)", tolerance |-> 25, holeTolerance |-> 10],
      [name |-> "Bambu Lab / Prusa (High Prec)", tolerance |-> 80, holeTolerance |-> 50],
      [name |-> "Standard FDM (Ender 3)", tolerance |-> 150, holeTolerance |-> 100],
      [name |-> "Resin / SLA (Formlabs)", tolerance |-> 50, holeTolerance |-> 30],
      [name |-> "Loose Fit (Prototyping)", tolerance |-> 250, holeTolerance |-> 200]>>

\* { ...p, [key]: value }: a copy of p with the field set, added if p lacks it
Spread(p, key, value) ==
    [k \in DOMAIN p \cup {key} |-> IF k = key THEN value ELSE p[k]]

\* Controls.tsx:173 and 180, the Reference Frame buttons: update('driveConfig', value)
SetDriveConfig(value) ==
    /\ params # Spread(params, "driveConfig", value)
    /\ SetParams(Spread(params, "driveConfig", value))

\* Controls.tsx:270-275, the Machine Settings select
SelectManufacturingPreset(i) ==
    LET preset == MANUFACTURING_PRESETS[i]
        newParams == Spread(Spread(params, "tolerance", preset.tolerance),
                            "holeTolerance", preset.holeTolerance)
    IN  /\ params # newParams
        /\ SetParams(newParams)

\* Controls.tsx:353-355, the button of a recommended fix
ApplyFix(i) ==
    /\ i \in 1 .. Len(quality.fixes)
    /\ quality.fixes[i].params # params
    /\ SetParams(quality.fixes[i].params)

\* AIAssistant.tsx:60-66, applyGenerated: onApplyParameters(generatedDesign.params)
ApplyGenerated(design) ==
    /\ params # design
    /\ SetParams(design)

NextQuality ==
    \/ \E v \in SliderPinCounts : UpdateQuality("pinCount", v)
    \/ \E v \in SliderRadii : UpdateQuality("pinCircleRadius", v)
    \/ \E v \in SliderPinRadii : UpdateQuality("pinRadius", v)
    \/ \E v \in SliderEccentricities : UpdateQuality("eccentricity", v)
    \/ \E v \in SliderHoleRadii : UpdateQuality("holeRadius", v)
    \/ \E i \in 1 .. Len(PRESETS) : SelectPreset(i)
    \/ \E v \in {"housingFixed", "outputFixed"} : SetDriveConfig(v)
    \/ \E i \in 1 .. Len(MANUFACTURING_PRESETS) : SelectManufacturingPreset(i)
    \/ \E i \in 1 .. 4 : ApplyFix(i)
    \/ \E d \in GeneratedDesigns : ApplyGenerated(d)

SpecQuality == InitQuality /\ [][NextQuality]_vars

(***************************************************************************)
(* The Analysis section of the Controls panel (Controls.tsx:70-74 and      *)
(* 229-253), over discs of a few micrometres.                              *)
(***************************************************************************)
\* the angle of 45 degrees
FortyFive == [opp |-> 1, adj |-> 1]

\* physics.maxPressureAngle > 45 ? 'Inefficient' : 'Good Efficiency'
Efficiency(maxPressureAngle) ==
    IF AngleGreater(maxPressureAngle, FortyFive) THEN "Inefficient" ELSE "Good Efficiency"

\* minCurve * 2, in tenths of a micrometre
Twice(minCurve) ==
    IF minCurve > MAX_VALUE \div 2 THEN Infinity ELSE 2 * minCurve

\* (x).toFixed(2) of a length of x tenths of a micrometre: hundredths of a
\* millimetre, in micrometres; Infinity prints as itself
DiameterText(x) == IF x = Infinity THEN Infinity ELSE ToFixed(x, 10, 2)

\* const maxToolDiameter = minCurve > 0 ? (minCurve * 2).toFixed(2) : "N/A"
MaxToolDiameter(minCurve) ==
    IF minCurve > 0 THEN [kind |-> "number", value |-> DiameterText(Twice(minCurve))]
                    ELSE [kind |-> "N/A"]

\* a slip: the threshold of the red colour, minCurve < 0.5, taken for the undercut test
ToolReadoutBelowHalf(minCurve) ==
    IF minCurve < 5000 THEN [text |-> "Undercut"]
                       ELSE [text |-> "mm", diameter |-> MaxToolDiameter(minCurve)]

\* {minCurve <= 0 ? 'Undercut' : `${maxToolDiameter}mm`}
ToolReadout(minCurve) ==
    IF minCurve <= 0 THEN [text |-> "Undercut"]
                     ELSE [text |-> "mm", diameter |-> MaxToolDiameter(minCurve)]

Analysis(metrics) ==
    [computed |-> TRUE,
     efficiency |-> Efficiency(metrics.maxPressureAngle),
     tool |-> ToolReadout(metrics.minCurvatureRadius)]

\* Controls.tsx:69-74, what a render of the panel computes
ControlsRender(p) ==
    /\ quality' = getGeometricQuality(p)
    /\ physics' = calculatePhysicsMetrics(p)
    /\ analysis' = Analysis(physics')

PhysicsEccentricities == {0, 1, 2, 4, 5}

PhysicsRadii == {8, 10, 16}

PhysicsFields ==
    [pinCount : ProfilePinCounts, pinCircleRadius : PhysicsRadii,
     pinRadius : ProfilePinRadii, eccentricity : PhysicsEccentricities,
     tolerance : {1}, resolution : Resolutions]

PhysicsParams == {WithFields(DEFAULT_PARAMS, f) : f \in PhysicsFields}

InitPhysics ==
    /\ params \in PhysicsParams
    /\ quality = getGeometricQuality(params)
    /\ physics = calculatePhysicsMetrics(params)
    /\ analysis = Analysis(physics)
    /\ profilePoints = <<>>
    /\ theoreticalPoints = <<>>
    /\ call = NoCall
    /\ download = NoDownload
    /\ AssistantClosed
    /\ AnimationStill
    /\ edits = 0
    /\ discPathString = <<>>
    /\ theoreticalPathString = <<>>

\* Controls.tsx:65-67, update(key, value) from a slider, and the render of
\* the panel with the new parameters
UpdatePhysics(key, value) ==
    /\ params[key] # value
    /\ params' = [params EXCEPT ![key] = value]
    /\ ControlsRender(params')
    /\ UNCHANGED <<profilePoints, theoreticalPoints, call, edits,
                   discPathString, theoreticalPathString, download>>
    /\ UNCHANGED assistantVars
    /\ UNCHANGED animationVars

NextPhysics ==
    \/ \E v \in ProfilePinCounts : UpdatePhysics("pinCount", v)
    \/ \E v \in PhysicsRadii : UpdatePhysics("pinCircleRadius", v)
    \/ \E v \in ProfilePinRadii : UpdatePhysics("pinRadius", v)
    \/ \E v \in PhysicsEccentricities : UpdatePhysics("eccentricity", v)

SpecPhysics == InitPhysics /\ [][NextPhysics]_vars

(***************************************************************************)
(* The Export DXF button of the App (handleDownload, kept as               *)
(* src/unnamed/part_002:17-30) under the sliders of the disc and of the    *)
(* centre hole: a disc of a few micrometres around a hole of the sizes the *)
(* sliders give.                                                           *)
(***************************************************************************)
\* handleDownload: the profile with its tolerance, the pins, and the document
\* written from them; the Blob and the link carry dxfContent as it is
HandleDownload ==
    /\ download' = [downloaded |-> TRUE,
                    profilePoints |-> generateCycloidProfile(params, Undefined),
                    pinPoints |-> generatePinPoints(params),
                    dxfContent |-> generateDXF(generateCycloidProfile(params, Undefined),
                                               generatePinPoints(params), params)]
    /\ download' # download
    /\ UNCHANGED <<params, profilePoints, theoreticalPoints, call, quality, edits,
                   physics, analysis, discPathString, theoreticalPathString>>
    /\ UNCHANGED assistantVars
    /\ UNCHANGED animationVars

\* the pin counts of the slider that divide the turn into whole twelfths
ExportPinCounts == {4, 12}

\* Controls.tsx:149-157, the Input Bearing Radius slider (2 mm, 10 mm)
ExportHoleRadii == {2000, 10000}

\* Controls.tsx:306-314, the Hole Expansion slider (0 mm, 0.1 mm)
ExportHoleTolerances == {0, 100}

ExportFields ==
    [pinCount : ExportPinCounts, pinCircleRadius : ProfileRadii,
     eccentricity : PathEccentricities, tolerance : ProfileTolerances,
     holeRadius : ExportHoleRadii, holeTolerance : ExportHoleTolerances,
     resolution : PathResolutions]

ExportParams ==
    {[DEFAULT_PARAMS EXCEPT !.pinCount = f.pinCount, !.pinCircleRadius = f.pinCircleRadius,
          !.pinRadius = 1, !.eccentricity = f.eccentricity, !.tolerance = f.tolerance,
          !.holeRadius = f.holeRadius, !.holeTolerance = f.holeTolerance,
          !.resolution = f.resolution] : f \in ExportFields}

InitExport ==
    /\ params \in ExportParams
    /\ profilePoints = generateCycloidProfile(params, Undefined)
    /\ theoreticalPoints = generateCycloidProfile(params, Given(0))
    /\ discPathString = getDiscSVGPath(profilePoints, params)
    /\ theoreticalPathString = getDiscSVGPath(theoreticalPoints, params)
    /\ call = NoCall
    /\ download = NoDownload
    /\ AssistantClosed
    /\ AnimationStill
    /\ quality = NoQuality
    /\ edits = 0
    /\ physics = NoPhysics
    /\ analysis = NoAnalysis

NextExport ==
    \/ \E v \in ExportPinCounts : UpdateProfile("pinCount", v)
    \/ \E v \in ProfileRadii : UpdateProfile("pinCircleRadius", v)
    \/ \E v \in PathEccentricities : UpdateProfile("eccentricity", v)
    \/ \E v \in ProfileTolerances : UpdateProfile("tolerance", v)
    \/ \E v \in ExportHoleRadii : UpdateProfile("holeRadius", v)
    \/ \E v \in ExportHoleTolerances : UpdateProfile("holeTolerance", v)
    \/ HandleDownload

SpecExport == InitExport /\ [][NextExport]_vars

(***************************************************************************)
(* The advisory service (src/services/geminiService.ts).                   *)
(*                                                                         *)
(* A text is the sequence of its words, a blank being the word " ", so     *)
(* the empty text is <<>> (a reply without text, undefined or "", is <<>>  *)
(* as well: the code tests it for truth only).  A value that may be null   *)
(* is Null or Given(v).  What the remote model answers is an input: a text *)
(* or a transport error.  A call of an async function settles as           *)
(* Returned(value) or as Rejected(error).                                  *)
(***************************************************************************)
Returned(value) == [kind |-> "returned", value |-> value]

Rejected(error) == [kind |-> "rejected", error |-> error]

\* the remote call throws
RemoteError == [kind |-> "error"]

\* the remote call answers with response.text = text
RemoteText(text) == [kind |-> "text", text |-> text]

\* a response text that is the JSON of a value, and one that is no JSON
JsonOf(value) == <<[valid |-> TRUE, value |-> value]>>

Malformed == <<[valid |-> FALSE]>>

\* JSON.parse
JSONParse(text) ==
    IF text[1].valid THEN Returned(text[1].value) ELSE Rejected("SyntaxError")

\* geminiService.ts:5-12: null without an API key, a client with one
getAI(key) == IF ~key THEN Null ELSE Given("GoogleGenAI")

\* geminiService.ts:14-54; the prompt is read by the remote model only
analyzeDesign(key, remote) ==
    IF getAI(key) = Null THEN Returned(<<"Error: API Key not found.">>)
    ELSE IF remote.kind = "error"
         THEN Returned(<<"Failed to generate analysis. Please check your API key or network connection.">>)
         ELSE Returned(IF remote.text = <<>> THEN <<"No analysis generated.">>
                       ELSE remote.text)

\* geminiService.ts:56-73: no try around the throw or around the await
chatWithEngineer(history, newMessage, key, remote) ==
    IF getAI(key) = Null THEN Rejected("API Key missing")
    ELSE IF remote.kind = "error" THEN Rejected("transport")
         ELSE Returned(remote.text)

\* geminiService.ts:80-138: the throw for the missing key is before the try
generateDesignParameters(userRequirements, key, remote) ==
    IF getAI(key) = Null THEN Rejected("API Key missing")
    ELSE IF remote.kind = "error" THEN Returned(Null)
         ELSE IF remote.text = <<>> THEN Returned(Null)
              ELSE IF JSONParse(remote.text).kind = "rejected" THEN Returned(Null)
                   ELSE Returned(Given(JSONParse(remote.text).value))

(***************************************************************************)
(* The AI panel (src/components/AIAssistant.tsx), open from the start.     *)
(* A handler runs to its await in one step and is resumed in a later one,  *)
(* when the call it waits for has settled; calls settle in any order.      *)
(***************************************************************************)
\* the most chat messages submitted in a behaviour
MaxMessages == 2

\* String.prototype.trim: the text without its leading and trailing blanks
RECURSIVE TrimStart(_)
TrimStart(text) ==
    IF Len(text) > 0 /\ text[1] = " " THEN TrimStart(Tail(text)) ELSE text

RECURSIVE TrimEnd(_)
TrimEnd(text) ==
    IF Len(text) > 0 /\ text[Len(text)] = " "
    THEN TrimEnd(SubSeq(text, 1, Len(text) - 1)) ELSE text

Trim(text) == TrimEnd(TrimStart(text))

\* what the user may type into the chat line and into the requirements box
ChatInputs == {<<>>, <<" ">>, <<"hi">>, <<" ", "ok">>}

GenInputs == {<<>>, <<" ">>, <<"drive">>}

\* what the remote model may answer to each kind of request
AnalysisReplies == {RemoteText(<<"report">>), RemoteText(<<>>), RemoteError}

ChatReplies == {RemoteText(<<"reply">>), RemoteText(<<>>), RemoteError}

GeneratedReplies ==
    {RemoteText(JsonOf([params |-> GeneratedParams(8, 100000, 1000, 10000, 2000),
                        reasoning |-> <<"why">>])),
     RemoteText(<<>>), RemoteText(Malformed), RemoteError}

\* AIAssistant.tsx:14-24, the useState initial values
AssistantMounted ==
    [activeTab |-> "generate", analysis |-> Null, loading |-> FALSE,
     chatInput |-> <<>>, chatHistory |-> <<>>, genInput |-> <<>>,
     generatedDesign |-> Null]

\* a sequence without its element i
Without(seq, i) == SubSeq(seq, 1, i - 1) \o SubSeq(seq, i + 1, Len(seq))

\* the remote model is asked only by a service that has a client
Asked(remote) == apiKey \/ remote = RemoteError

\* the variables the AI panel leaves alone, params apart
panelVars ==
    <<profilePoints, theoreticalPoints, call, quality, edits, physics, analysis,
      discPathString, theoreticalPathString, download, animationVars>>

\* AIAssistant.tsx:72, 80, 88: the three tab buttons
SetActiveTab(tab) ==
    /\ assistant.activeTab # tab
    /\ assistant' = [assistant EXCEPT !.activeTab = tab]
    /\ UNCHANGED <<apiKey, pending, settled, params, panelVars>>

\* AIAssistant.tsx:114, onChange of the requirements box
SetGenInput(text) ==
    /\ assistant.activeTab = "generate"
    /\ assistant.genInput # text
    /\ assistant' = [assistant EXCEPT !.genInput = text]
    /\ UNCHANGED <<apiKey, pending, settled, params, panelVars>>

\* AIAssistant.tsx:215, onChange of the chat line
SetChatInput(text) ==
    /\ assistant.activeTab = "chat"
    /\ assistant.chatInput # text
    /\ assistant' = [assistant EXCEPT !.chatInput = text]
    /\ UNCHANGED <<apiKey, pending, settled, params, panelVars>>

\* AIAssistant.tsx:26-30, handleAnalyze up to its await (the button is
\* disabled while loading); the profile and the minimum wall it computes go
\* into the prompt only
HandleAnalyze ==
    /\ assistant.activeTab = "analyze"
    /\ ~assistant.loading
    /\ assistant' = [assistant EXCEPT !.loading = TRUE]
    /\ pending' = Append(pending, [handler |-> "handleAnalyze"])
    /\ UNCHANGED <<apiKey, settled, params, panelVars>>

\* AIAssistant.tsx:30-32, handleAnalyze from its await on
AnalyzeSettles(i, remote) ==
    /\ i \in 1 .. Len(pending)
    /\ pending[i].handler = "handleAnalyze"
    /\ Asked(remote)
    /\ LET result == analyzeDesign(apiKey, remote)
       IN  /\ settled' = [fn |-> "analyzeDesign"] @@ result
           /\ assistant' =
                  IF result.kind = "returned"
                  THEN [assistant EXCEPT !.analysis = Given(result.value),
                                         !.loading = FALSE]
                  ELSE assistant
    /\ pending' = Without(pending, i)
    /\ UNCHANGED <<apiKey, params, panelVars>>

\* a slip: the line submitted whenever it is not empty
SubmittedUntrimmed(chatInput) == chatInput # <<>>

\* AIAssistant.tsx:37, the test that lets a submission through
Submitted(chatInput) == Trim(chatInput) # <<>>

\* AIAssistant.tsx:35-44, handleChat up to its await: chatWithEngineer is
\* given the chatHistory of the render the handler belongs to
HandleChat ==
    /\ assistant.activeTab = "chat"
    /\ IF ~Submitted(assistant.chatInput)
       THEN UNCHANGED <<assistant, pending>>
       ELSE /\ Len(SelectSeq(assistant.chatHistory, LAMBDA h : h.role = "user"))
                   < MaxMessages
            /\ assistant' =
                   [assistant EXCEPT
                        !.chatInput = <<>>,
                        !.chatHistory = Append(@, [role |-> "user",
                                                   text |-> assistant.chatInput])]
            /\ pending' = Append(pending, [handler |-> "handleChat",
                                           history |-> assistant.chatHistory,
                                           newMessage |-> assistant.chatInput])
    /\ UNCHANGED <<apiKey, settled, params, panelVars>>

\* the text of the catch of handleChat
ChatErrorText == <<"Error: Could not connect to engineer.">>

\* AIAssistant.tsx:44-48, handleChat from its await on
ChatSettles(i, remote) ==
    /\ i \in 1 .. Len(pending)
    /\ pending[i].handler = "handleChat"
    /\ Asked(remote)
    /\ LET result == chatWithEngineer(pending[i].history, pending[i].newMessage,
                                      apiKey, remote)
       IN  /\ settled' = [fn |-> "chatWithEngineer"] @@ result
           /\ assistant' =
                  [assistant EXCEPT !.chatHistory =
                       Append(@, [role |-> "model",
                                  text |-> IF result.kind = "returned"
                                           THEN result.value ELSE ChatErrorText])]
    /\ pending' = Without(pending, i)
    /\ UNCHANGED <<apiKey, params, panelVars>>

\* AIAssistant.tsx:51-55, handleGenerate up to its await (the button is
\* disabled while loading and for an empty box)
HandleGenerate ==
    /\ assistant.activeTab = "generate"
    /\ ~(assistant.loading \/ assistant.genInput = <<>>)
    /\ IF Trim(assistant.genInput) = <<>>
       THEN UNCHANGED <<assistant, pending>>
       ELSE /\ assistant' = [assistant EXCEPT !.loading = TRUE,
                                              !.generatedDesign = Null]
            /\ pending' = Append(pending, [handler |-> "handleGenerate",
                                           userRequirements |-> assistant.genInput])
    /\ UNCHANGED <<apiKey, settled, params, panelVars>>

\* AIAssistant.tsx:55-57, handleGenerate from its await on: a rejection ends
\* the handler there, nothing catches it
GenerateSettles(i, remote) ==
    /\ i \in 1 .. Len(pending)
    /\ pending[i].handler = "handleGenerate"
    /\ Asked(remote)
    /\ LET result == generateDesignParameters(pending[i].userRequirements,
                                              apiKey, remote)
       IN  /\ settled' = [fn |-> "generateDesignParameters"] @@ result
           /\ assistant' =
                  IF result.kind = "returned"
                  THEN [assistant EXCEPT !.generatedDesign = result.value,
                                         !.loading = FALSE]
                  ELSE assistant
    /\ pending' = Without(pending, i)
    /\ UNCHANGED <<apiKey, params, panelVars>>

\* AIAssistant.tsx:60-66, applyGenerated, the button shown with a suggestion:
\* onApplyParameters is the App's setParams
applyGenerated ==
    /\ assistant.activeTab = "generate"
    /\ assistant.generatedDesign # Null
    /\ params' = assistant.generatedDesign[1].params
    /\ assistant' = [assistant EXCEPT !.generatedDesign = Null,
                                      !.activeTab = "analyze"]
    /\ UNCHANGED <<apiKey, pending, settled, panelVars>>

InitAssistant ==
    /\ params = DEFAULT_PARAMS
    /\ apiKey \in BOOLEAN
    /\ assistant = AssistantMounted
    /\ pending = <<>>
    /\ settled = NoneSettled
    /\ AnimationStill
    /\ profilePoints = <<>>
    /\ theoreticalPoints = <<>>
    /\ discPathString = <<>>
    /\ theoreticalPathString = <<>>
    /\ call = NoCall
    /\ download = NoDownload
    /\ quality = NoQuality
    /\ edits = 0
    /\ physics = NoPhysics
    /\ analysis = NoAnalysis

\* the Generator and Analyze tabs of the panel
NextAssistant ==
    \/ \E tab \in {"generate", "analyze", "chat"} : SetActiveTab(tab)
    \/ \E text \in GenInputs : SetGenInput(text)
    \/ HandleAnalyze
    \/ HandleGenerate
    \/ \E remote \in AnalysisReplies : AnalyzeSettles(1, remote)
    \/ \E remote \in GeneratedReplies : GenerateSettles(1, remote)
    \/ applyGenerated

SpecAssistant == InitAssistant /\ [][NextAssistant]_vars

\* a call that has been made settles, and the handler that awaits it resumes
AwaitedSettles ==
    \/ \E remote \in AnalysisReplies : AnalyzeSettles(1, remote)
    \/ \E remote \in GeneratedReplies : GenerateSettles(1, remote)

FairAssistant == SpecAssistant /\ WF_vars(AwaitedSettles)

\* the Chat tab of the panel, any number of messages in flight
NextChat ==
    \/ \E tab \in {"generate", "analyze", "chat"} : SetActiveTab(tab)
    \/ \E text \in ChatInputs : SetChatInput(text)
    \/ HandleChat
    \/ \E i \in 1 .. MaxMessages : \E remote \in ChatReplies : ChatSettles(i, remote)

SpecChat == InitAssistant /\ [][NextChat]_vars

\* every message sent is answered or fails: the oldest one in flight settles
OldestSettles == \E remote \in ChatReplies : ChatSettles(1, remote)

FairChat == SpecChat /\ WF_vars(OldestSettles)

(***************************************************************************)
(* Properties of generateCycloidProfile, checked under SpecProfile.        *)
(***************************************************************************)
\* every result of generateCycloidProfile visible in a state, with the
\* override it was called with
ProfileResults ==
    {[overrideTolerance |-> Undefined, points |-> profilePoints],
     [overrideTolerance |-> Given(0), points |-> theoreticalPoints]}
    \cup (IF call.called
          THEN {[overrideTolerance |-> call.overrideTolerance, points |-> call.points]}
          ELSE {})

\* the sample indices 0 .. resolution in increasing order
SampleIndices(p) == [k \in 1 .. p.resolution + 1 |-> k - 1]

TangentAt(p, i) == TangentLen(p, SampleAngle(i, p.resolution))

\* the indices whose tangent magnitude is at least 1e-6 mm, in increasing order
RetainedIndices(p) == SelectSeq(SampleIndices(p), LAMBDA i : TangentAt(p, i) >= 1)

DegenerateIndices(p) == {i \in 0 .. p.resolution : TangentAt(p, i) < 1}

\* the inward unit normal (-dy/dt, dx/dt) / |tangent| at sample i
UnitNormalAt(p, i) ==
    LET t == SampleAngle(i, p.resolution)
    IN  [nx |-> RoundDiv(-DyDt(p, t) * 1000, TangentAt(p, i)),
         ny |-> RoundDiv(DxDt(p, t) * 1000, TangentAt(p, i))]

\* C1: for resolution >= 1 the result holds, in index order, exactly one
\* point for every sample index 0 .. resolution whose tangent magnitude is at
\* least 1e-6 and none for the others, so its length is resolution + 1 minus
\* the number of degenerate samples and never more than resolution + 1.
C1_OnePointPerRetainedIndex ==
    params.resolution >= 1 =>
        \A res \in ProfileResults :
            LET kept == RetainedIndices(params)
                r == OffsetDistance(params, res.overrideTolerance)
            IN  /\ Len(res.points) = Len(kept)
                /\ \A k \in 1 .. Len(kept) :
                       LET t == SampleAngle(kept[k], params.resolution)
                       IN  res.points[k] = ProfilePoint(params, r, t, TangentLen(params, t))
                /\ Len(res.points) =
                       params.resolution + 1 - Cardinality(DegenerateIndices(params))
                /\ Len(res.points) <= params.resolution + 1

\* a call whose result lacks some samples and keeps others
C1_Witness ==
    /\ call.called
    /\ DegenerateIndices(params) # {}
    /\ Len(call.points) > 0
    /\ Len(call.points) < params.resolution + 1

\* C2: for valid parameters with resolution = 3 the function returns a
\* non-empty sequence.
C2_NonEmptyAtResolutionThree ==
    params.resolution = 3 =>
        \A res \in ProfileResults : Len(res.points) > 0

\* C3: for tolerance > 0 the toleranced and the theoretical profile retain
\* the same sample indices, carry the same unit normal (-dy/dt, dx/dt)/|tangent|
\* at each index, and each toleranced point is the theoretical point of its
\* index displaced by exactly tolerance along that normal.
C3_ToleranceDisplacesAlongNormal ==
    params.tolerance > 0 =>
        LET kept == RetainedIndices(params)
        IN  /\ Len(profilePoints) = Len(kept)
            /\ Len(theoreticalPoints) = Len(kept)
            /\ \A k \in 1 .. Len(kept) :
                   LET a == profilePoints[k]
                       b == theoreticalPoints[k]
                       n == UnitNormalAt(params, kept[k])
                   IN  /\ a.nx = n.nx /\ a.ny = n.ny
                       /\ b.nx = n.nx /\ b.ny = n.ny
                       /\ a.x = b.x + params.tolerance * n.nx
                       /\ a.y = b.y + params.tolerance * n.ny

\* a render with a positive tolerance and a point that the tolerance moves
C3_Witness ==
    /\ params.tolerance > 0
    /\ Len(profilePoints) > 0
    /\ \E k \in 1 .. Len(profilePoints) : profilePoints[k] # theoreticalPoints[k]

\* C4: the distance applied along the normal is pinRadius + effectiveTolerance,
\* effectiveTolerance being the override whenever one is supplied (0 included)
\* and params.tolerance only when none is supplied.
C4_OffsetUsesOverrideWhenSupplied ==
    \A res \in ProfileResults :
        LET kept == RetainedIndices(params)
            distance == params.pinRadius +
                        (IF res.overrideTolerance = Undefined
                         THEN params.tolerance
                         ELSE res.overrideTolerance[1])
        IN  /\ Len(res.points) = Len(kept)
            /\ \A k \in 1 .. Len(kept) :
                   LET t == SampleAngle(kept[k], params.resolution)
                       pt == res.points[k]
                   IN  /\ pt.x - LocusX(params, t) = distance * pt.nx
                       /\ pt.y - LocusY(params, t) = distance * pt.ny

\* a call with the override 0 on parameters whose own tolerance is positive
C4_Witness ==
    /\ call.called
    /\ call.overrideTolerance = Given(0)
    /\ params.tolerance > 0
    /\ Len(call.points) > 0

(***************************************************************************)
(* Properties of getGeometricQuality, checked under SpecQuality.           *)
(***************************************************************************)
HasWarning(q, text) == \E i \in 1 .. Len(q.warnings) : q.warnings[i].text = text

EccentricityText == "Eccentricity is too high for this radius."

PinText == "Pins are too large for spacing."

WallText == "Wall thickness is critically low."

\* the fixes of q that carry the label, in the order of q.fixes
FixesLabelled(q, label) == SelectSeq(q.fixes, LAMBDA f : f.label = label)

\* v is num / den rounded to the nearest multiple of step
IsRounded(v, num, den, step) ==
    /\ v % step = 0
    /\ 2 * Abs(v * den - num) <= step * den

\* eccentricity > pinCircleRadius / (1.5 * pinCount)
EccentricityCondition(p) == 3 * p.pinCount * p.eccentricity > 2 * p.pinCircleRadius

\* 2 * pinRadius > 0.95 * pinSpacing, pinSpacing = 2 * pi * pinCircleRadius / pinCount
PinCondition(p) == 2 * p.pinRadius * 20 * PinSpacingDen(p) > 19 * PinSpacingNum(p)

InnerRadius(p) == p.pinCircleRadius - p.pinCount * p.eccentricity - p.pinRadius

\* approxInnerRadius < holeRadius + 1.5
WallCondition(p) == InnerRadius(p) < p.holeRadius + 1500

ValidParameters(p) ==
    /\ p.pinCount >= 4 /\ p.pinCircleRadius > 0 /\ p.pinRadius > 0
    /\ p.eccentricity >= 0 /\ p.holeRadius >= 0

\* C6: for valid parameters with eccentricity > pinCircleRadius/(1.5*pinCount)
\* the warnings are non-empty and contain the eccentricity warning, and
\* getGeometricQuality on the parameters of the first fix ("Reduce
\* Eccentricity") yields no eccentricity warning.
C6_FirstFixClearsEccentricityWarning ==
    (ValidParameters(params) /\ EccentricityCondition(params)) =>
        /\ Len(quality.warnings) > 0
        /\ HasWarning(quality, EccentricityText)
        /\ Len(quality.fixes) > 0
        /\ quality.fixes[1].label = "Reduce Eccentricity"
        /\ ~HasWarning(getGeometricQuality(quality.fixes[1].params), EccentricityText)

\* C7: the eccentricity warning is emitted iff eccentricity >
\* pinCircleRadius/(1.5*pinCount); when emitted exactly two fixes are proposed
\* for it, in this order: (a) eccentricity = pinCircleRadius/(2*pinCount)
\* rounded to 2 decimals, (b) pinCircleRadius = eccentricity*2*pinCount rounded
\* to 1 decimal, and (b) is an increase of pinCircleRadius.
C7_EccentricityRule ==
    /\ HasWarning(quality, EccentricityText) <=> EccentricityCondition(params)
    /\ HasWarning(quality, EccentricityText) =>
          /\ Len(quality.fixes) >= 2
          /\ quality.fixes[1].label = "Reduce Eccentricity"
          /\ quality.fixes[2].label = "Increase Radius"
          /\ Len(FixesLabelled(quality, "Reduce Eccentricity")) = 1
          /\ Len(FixesLabelled(quality, "Increase Radius")) = 1
          /\ IsRounded(quality.fixes[1].params.eccentricity,
                       params.pinCircleRadius, 2 * params.pinCount, 10)
          /\ IsRounded(quality.fixes[2].params.pinCircleRadius,
                       params.eccentricity * 2 * params.pinCount, 1, 100)
          /\ quality.fixes[2].params.pinCircleRadius > params.pinCircleRadius
    /\ ~HasWarning(quality, EccentricityText) =>
          /\ Len(FixesLabelled(quality, "Reduce Eccentricity")) = 0
          /\ Len(FixesLabelled(quality, "Increase Radius")) = 0

\* C8: the wall warning is emitted iff approxInnerRadius < holeRadius + 1.5;
\* a "Shrink Center Hole" fix is proposed only if approxInnerRadius - 2.0 > 0,
\* and then its holeRadius is max(2, approxInnerRadius - 2.0); when
\* approxInnerRadius - 2.0 <= 0 the warning comes with no fix.
C8_WallThicknessRule ==
    LET holeFixes == FixesLabelled(quality, "Shrink Center Hole")
    IN  /\ HasWarning(quality, WallText) <=> WallCondition(params)
        /\ Len(holeFixes) > 0 =>
              /\ HasWarning(quality, WallText)
              /\ InnerRadius(params) - 2000 > 0
              /\ Len(holeFixes) = 1
              /\ holeFixes[1].params.holeRadius = Max(2000, InnerRadius(params) - 2000)
        /\ (HasWarning(quality, WallText) /\ InnerRadius(params) - 2000 <= 0) =>
              Len(holeFixes) = 0

\* C9: the pin warning is emitted iff 2*pinRadius > 0.95*pinSpacing; when
\* emitted exactly one fix "Shrink Pins" is proposed, whose pinRadius is
\* 0.9*pinSpacing/2 rounded to 2 decimals and is smaller than the input
\* pinRadius.
C9_PinCrowdingRule ==
    LET pinFixes == FixesLabelled(quality, "Shrink Pins")
    IN  /\ HasWarning(quality, PinText) <=> PinCondition(params)
        /\ HasWarning(quality, PinText) =>
              /\ Len(pinFixes) = 1
              /\ IsRounded(pinFixes[1].params.pinRadius,
                           9 * PinSpacingNum(params), 10 * 2 * PinSpacingDen(params), 10)
              /\ pinFixes[1].params.pinRadius < params.pinRadius
        /\ ~HasWarning(quality, PinText) => Len(pinFixes) = 0

\* C10: the three rules are evaluated independently on the original
\* parameters: the warnings are exactly those of the rules whose condition
\* holds, in the order eccentricity, pin crowding, wall thickness, whatever
\* the other rules did.
C10_RulesIndependent ==
    quality.warnings =
        (IF EccentricityCondition(params)
         THEN <<[text |-> EccentricityText, args |-> <<params.eccentricity>>]>> ELSE <<>>)
        \o (IF PinCondition(params) THEN <<[text |-> PinText, args |-> <<>>]>> ELSE <<>>)
        \o (IF WallCondition(params) THEN <<[text |-> WallText, args |-> <<>>]>> ELSE <<>>)

\* the eight combinations of the three conditions
RuleCombination(e, n, w) ==
    /\ edits > 0
    /\ EccentricityCondition(params) = e
    /\ PinCondition(params) = n
    /\ WallCondition(params) = w

\* all three rules fire on the same parameters
C10_Witness == RuleCombination(TRUE, TRUE, TRUE) /\ Len(quality.warnings) = 3

\* the fixes the three rules propose for p, in the order the rules run
ProposedFixes(p) == EccentricityRule(p).fixes \o PinRule(p).fixes \o WallRule(p).fixes

\* C11: in every result of getGeometricQuality, valid is true if and only if
\* the warnings list is empty, and a non-empty fixes list implies a non-empty
\* warnings list (valid = true implies no fixes).
C11_ValidIffNoWarnings ==
    /\ quality.valid <=> Len(quality.warnings) = 0
    /\ Len(quality.fixes) > 0 => Len(quality.warnings) > 0
    /\ quality.valid => Len(quality.fixes) = 0

\* a result with warnings and fixes, reached by an edit of valid parameters
C11_Witness ==
    /\ edits > 0
    /\ ~quality.valid
    /\ Len(quality.warnings) > 0
    /\ Len(quality.fixes) > 0

\* the field of the parameters a fix is labelled for
FixedField(label) ==
    CASE label = "Reduce Eccentricity" -> "eccentricity"
      [] label = "Increase Radius" -> "pinCircleRadius"
      [] label = "Shrink Pins" -> "pinRadius"
      [] label = "Shrink Center Hole" -> "holeRadius"

\* C12: every fix carries a complete parameter record with every field of
\* the input, equal to the input in all fields except the single field the
\* fix names (eccentricity, pinCircleRadius, pinRadius or holeRadius), and
\* the parameters the result was computed from are unchanged by the call.
C12_FixChangesOneField ==
    /\ quality = getGeometricQuality(params)
    /\ \A i \in 1 .. Len(quality.fixes) :
           LET fix == quality.fixes[i]
           IN  /\ fix.label \in {"Reduce Eccentricity", "Increase Radius",
                                 "Shrink Pins", "Shrink Center Hole"}
               /\ DOMAIN fix.params = DOMAIN params
               /\ \A k \in DOMAIN params \ {FixedField(fix.label)} :
                      fix.params[k] = params[k]

\* three fixes for three different fields, at least one of which changes its field
C12_Witness ==
    /\ edits > 0
    /\ Len(quality.fixes) >= 3
    /\ \E i \in 1 .. Len(quality.fixes) : quality.fixes[i].params # params
    /\ {FixedField(quality.fixes[i].label) : i \in 1 .. Len(quality.fixes)}
           \in {s \in SUBSET {"eccentricity", "pinCircleRadius", "pinRadius", "holeRadius"} :
                    Cardinality(s) >= 3}

\* the entries of fixes that no earlier entry equals in label and parameters,
\* in the order of fixes
FirstOccurrences(fixes) ==
    LET Repeats(i) == \E j \in 1 .. i - 1 :
                          /\ fixes[j].label = fixes[i].label
                          /\ fixes[j].params = fixes[i].params
        kept == SelectSeq([i \in 1 .. Len(fixes) |-> i], LAMBDA i : ~Repeats(i))
    IN  [k \in 1 .. Len(kept) |-> fixes[kept[k]]]

\* C13: the fixes list never contains two entries with the same label and
\* field-wise equal parameters; de-duplication keeps the first occurrence and
\* preserves the relative order in which the rules proposed the fixes.
C13_FixesDeduplicated ==
    /\ \A i, j \in 1 .. Len(quality.fixes) :
           (i # j) => ~(/\ quality.fixes[i].label = quality.fixes[j].label
                        /\ quality.fixes[i].params = quality.fixes[j].params)
    /\ quality.fixes = FirstOccurrences(ProposedFixes(params))

\* all four fixes proposed at once
C13_Witness ==
    /\ edits > 0
    /\ Len(ProposedFixes(params)) = 4
    /\ Len(quality.fixes) = 4

\* C14: for the Heavy Duty preset (pinCount 8, pinCircleRadius 100,
\* pinRadius 15, eccentricity 4.0, holeRadius 25) getGeometricQuality computes
\* approxInnerRadius = 53 >= 26.5 and emits no wall-thickness warning.
C14_HeavyDutyNoWallWarning ==
    (/\ params.pinCount = 8 /\ params.pinCircleRadius = 100000
     /\ params.pinRadius = 15000 /\ params.eccentricity = 4000
     /\ params.holeRadius = 25000) =>
        /\ ApproxInnerRadius(params) = 53000
        /\ ApproxInnerRadius(params) >= 26500
        /\ ~HasWarning(quality, WallText)

\* the Heavy Duty preset selected on the panel
C14_Witness ==
    /\ edits > 0
    /\ params = PRESETS[4]
    /\ params.pinCount = 8 /\ params.pinCircleRadius = 100000
    /\ params.pinRadius = 15000 /\ params.eccentricity = 4000
    /\ params.holeRadius = 25000
    /\ quality.computed

(***************************************************************************)
(* Properties of calculatePhysicsMetrics and of the Analysis readouts,     *)
(* checked under SpecPhysics.                                              *)
(***************************************************************************)
\* C15: for fixed pinCount, pinCircleRadius and resolution, maxPressureAngle
\* is non-decreasing in eccentricity: a step that changes nothing of the
\* three and does not lower the eccentricity does not lower maxPressureAngle.
C15_PressureAngleMonotone ==
    [][(/\ params.resolution >= 3
        /\ params'.pinCount = params.pinCount
        /\ params'.pinCircleRadius = params.pinCircleRadius
        /\ params'.resolution = params.resolution
        /\ params.eccentricity <= params'.eccentricity)
       => ~AngleGreater(physics.maxPressureAngle, physics'.maxPressureAngle)]_vars

\* atan2(|K*sin(N*t)|, |1 - K*cos(N*t)|) at sample i, K = E*N/R, both
\* arguments multiplied by R
SamplePressure(p, i) ==
    LET t == SampleAngle(i, p.resolution)
    IN  Atan2(Abs(p.eccentricity * p.pinCount * Sin(p.pinCount * t)),
              Abs(1000 * p.pinCircleRadius
                  - p.eccentricity * p.pinCount * Cos(p.pinCount * t)))

SameAngle(a, b) == ~AngleGreater(a, b) /\ ~AngleGreater(b, a)

\* C16: maxPressureAngle is the maximum, over the retained samples, of
\* atan2(|K*sin(N*t)|, |1 - K*cos(N*t)|) with K = E*N/R; it lies in [0, 90]
\* and is 0 when no sample is retained; a value above 45 is only flagged on
\* the panel as inefficient, and the panel is rendered as for any other value.
C16_MaxPressureAngle ==
    LET kept == RetainedIndices(params)
        max == physics.maxPressureAngle
    IN  /\ physics.computed
        /\ Len(kept) = 0 => max = ZeroAngle
        /\ \A k \in 1 .. Len(kept) : ~AngleGreater(SamplePressure(params, kept[k]), max)
        /\ Len(kept) > 0 =>
               \E k \in 1 .. Len(kept) : SameAngle(SamplePressure(params, kept[k]), max)
        /\ max.opp >= 0 /\ max.adj >= 0 /\ (max.opp > 0 \/ max.adj > 0)
        /\ analysis.computed
        /\ analysis.efficiency = (IF max.opp > max.adj THEN "Inefficient"
                                                        ELSE "Good Efficiency")

\* an angle of 90 degrees, flagged as inefficient
C16_Witness ==
    /\ Len(physics.points) > 0
    /\ physics.maxPressureAngle.opp > 0
    /\ physics.maxPressureAngle.adj = 0
    /\ analysis.efficiency = "Inefficient"

\* the curvature recorded for each retained sample, in the order of the samples
Curvatures == [k \in 1 .. Len(physics.points) |-> physics.points[k].curvatureRadius]

\* k is the earliest of the samples of smallest absolute curvature
EarliestSmallest(k) ==
    /\ \A j \in 1 .. Len(Curvatures) : Abs(Curvatures[j]) >= Abs(Curvatures[k])
    /\ \A j \in 1 .. k - 1 : Abs(Curvatures[j]) > Abs(Curvatures[k])

\* C17 as stated: minCurvatureRadius is the surfaceCurvature (rho - pinRadius)
\* of the retained sample whose absolute value is smallest, sign preserved,
\* the earliest sample winning on equal magnitudes.
C17_SmallestMagnitudeOfRetained ==
    (params.resolution >= 3 /\ Len(physics.points) > 0) =>
        \E k \in 1 .. Len(physics.points) :
            /\ EarliestSmallest(k)
            /\ physics.minCurvatureRadius = Curvatures[k]

\* C17 amended: when some retained sample has a finite surfaceCurvature,
\* minCurvatureRadius is the surfaceCurvature (rho - pinRadius) of the
\* retained sample whose absolute value is smallest, sign preserved, the
\* earliest sample winning on equal magnitudes; when none has (no sample is
\* retained, or rho is infinite at every retained sample), it is
\* Number.MAX_VALUE.
C17_SmallestFiniteMagnitude ==
    LET kept == RetainedIndices(params)
    IN  /\ Len(physics.points) = Len(kept)
        /\ \A k \in 1 .. Len(kept) :
               LET rho == Rho(params, SampleAngle(kept[k], params.resolution))
               IN  Curvatures[k] = (IF Abs(rho) > MAX_VALUE THEN rho
                                    ELSE rho - 10 * params.pinRadius)
        /\ IF \E k \in 1 .. Len(kept) : Abs(Curvatures[k]) < MAX_VALUE
           THEN \E k \in 1 .. Len(kept) :
                    /\ EarliestSmallest(k)
                    /\ physics.minCurvatureRadius = Curvatures[k]
           ELSE physics.minCurvatureRadius = MAX_VALUE

\* a negative curvature returned although a positive one of larger magnitude
\* was sampled before it
C17_Witness ==
    /\ physics.minCurvatureRadius < 0
    /\ \E j, k \in 1 .. Len(physics.points) :
           /\ j < k
           /\ Curvatures[j] > 0
           /\ Curvatures[j] > Abs(Curvatures[k])
           /\ Curvatures[k] = physics.minCurvatureRadius

\* C18: calculatePhysicsMetrics returns whatever the sign of
\* minCurvatureRadius, and the tool-size readout shows 'Undercut' exactly
\* when minCurvatureRadius <= 0 and otherwise the diameter
\* 2 * minCurvatureRadius to two decimals; it never shows a diameter for a
\* non-positive minCurvatureRadius.
C18_UndercutReadout ==
    LET minCurve == physics.minCurvatureRadius
    IN  /\ physics.computed /\ analysis.computed
        /\ analysis.tool.text = "Undercut" <=> minCurve <= 0
        /\ minCurve > 0 =>
               /\ analysis.tool.text = "mm"
               /\ analysis.tool.diameter.kind = "number"
               /\ IF minCurve > MAX_VALUE \div 2
                  THEN analysis.tool.diameter.value = Infinity
                  ELSE IsRounded(analysis.tool.diameter.value, 2 * minCurve, 10, 10)
        /\ minCurve <= 0 => "diameter" \notin DOMAIN analysis.tool

\* an undercut disc, reported as such
C18_Witness ==
    /\ physics.computed
    /\ physics.minCurvatureRadius < 0
    /\ analysis.tool.text = "Undercut"

\* a disc that is not undercut, with its diameter
C18_DiameterShown ==
    /\ physics.minCurvatureRadius > 0
    /\ physics.minCurvatureRadius < MAX_VALUE
    /\ analysis.tool.text = "mm"

OutlineLength(points) == IF Len(points) = 0 THEN 0 ELSE Len(points) + 1

\* the commands of a path after the outline drawn from points
HolePart(pathD, points) == SubSeq(pathD, OutlineLength(points) + 1, Len(pathD))

\* the subpaths of a sequence of commands: one for every move
Subpaths(commands) == {k \in 1 .. Len(commands) : commands[k].op = "M"}

\* C20: after the outline the path has exactly outputPinCount hole subpaths;
\* hole i (i = 0 .. outputPinCount - 1) is centred at the angle
\* 2*pi*i/outputPinCount on the circle of radius outputPinCircleRadius (hole
\* 0 at angle 0) and has the radius outputPinRadius + eccentricity +
\* holeTolerance; the holes depend neither on the profile points nor on the
\* tolerance.
C20_OutputHoles ==
    LET holes == HolePart(discPathString, profilePoints)
        numHoles == params.outputPinCount
        radius == 1000 * (params.outputPinRadius + params.eccentricity
                          + params.holeTolerance)
    IN  /\ Cardinality(Subpaths(holes)) = numHoles
        /\ Len(holes) = 3 * numHoles
        /\ \A i \in 0 .. numHoles - 1 :
               LET start == holes[3 * i + 1]
                   half == holes[3 * i + 2]
                   back == holes[3 * i + 3]
                   angle == (12 * i) \div numHoles
               IN  /\ start.op = "M" /\ half.op = "A" /\ back.op = "A"
                   /\ start.x + half.x = 2 * params.outputPinCircleRadius * Cos(angle)
                   /\ start.y = params.outputPinCircleRadius * Sin(angle)
                   /\ half.y = start.y /\ back.y = start.y
                   /\ start.x - half.x = 2 * radius
                   /\ back.x = start.x
                   /\ half.rx = radius /\ half.ry = radius
                   /\ back.rx = radius /\ back.ry = radius
        /\ numHoles > 0 =>
               /\ holes[1].x + holes[2].x = 2 * 1000 * params.outputPinCircleRadius
               /\ holes[1].y = 0
        /\ HolePart(theoreticalPathString, theoreticalPoints) = holes

\* twelve holes behind two different outlines, on a disc with an orbit
C20_Witness ==
    /\ params.outputPinCount = 12
    /\ params.eccentricity > 0
    /\ params.tolerance > 0
    /\ Len(profilePoints) > 0
    /\ profilePoints # theoreticalPoints
    /\ Len(discPathString) = Len(profilePoints) + 1 + 36

\* the holes of a disc none of whose samples is retained
C20_HolesWithoutOutline ==
    /\ Len(profilePoints) = 0
    /\ Len(discPathString) = 3 * params.outputPinCount
    /\ params.outputPinCount > 0

\* the outline of a path drawn from points: a move to the first point, a line
\* to each further one and a close, nothing for no points
IsClosedOutline(outline, points) ==
    /\ Len(outline) = OutlineLength(points)
    /\ \A k \in 1 .. Len(points) :
           /\ outline[k].op = (IF k = 1 THEN "M" ELSE "L")
           /\ outline[k].x = points[k].x
           /\ outline[k].y = points[k].y
    /\ Len(points) > 0 => outline[Len(points) + 1].op = "Z"

\* the commands of a path that draw the outline
OutlinePart(pathD, points) == SubSeq(pathD, 1, OutlineLength(points))

\* C21: the path is the closed outline of the profile points followed by the
\* hole subpaths in index order and nothing else; hole i is one move to
\* (cx + holeR, cy) followed by exactly two arcs of radii holeR with the same
\* sweep direction, the first ending at the opposite end (cx - holeR, cy) of
\* the diameter, the second back at the start point, so each is a half
\* circle and the subpath is closed.
C21_HoleSubpaths ==
    LET outline == OutlinePart(discPathString, profilePoints)
        holes == HolePart(discPathString, profilePoints)
        numHoles == params.outputPinCount
        holeR == 1000 * (params.outputPinRadius + params.eccentricity
                         + params.holeTolerance)
    IN  /\ IsClosedOutline(outline, profilePoints)
        /\ discPathString = outline \o holes
        /\ Len(holes) = 3 * numHoles
        /\ \A k \in 1 .. Len(holes) :
               holes[k].op = (IF k % 3 = 1 THEN "M" ELSE "A")
        /\ \A i \in 0 .. numHoles - 1 :
               LET start == holes[3 * i + 1]
                   first == holes[3 * i + 2]
                   second == holes[3 * i + 3]
                   cx == params.outputPinCircleRadius * Cos((12 * i) \div numHoles)
                   cy == params.outputPinCircleRadius * Sin((12 * i) \div numHoles)
               IN  /\ start.x = cx + holeR /\ start.y = cy
                   /\ first.x = cx - holeR /\ first.y = cy
                   /\ second.x = start.x /\ second.y = start.y
                   /\ first.sweep = second.sweep
                   /\ first.largeArc = second.largeArc
                   /\ \A arc \in {first, second} :
                          /\ arc.rx = holeR /\ arc.ry = holeR /\ arc.rotation = 0
                          /\ 2 * arc.rx = start.x - first.x

\* an outline of several points followed by six holes of positive radius
C21_Witness ==
    /\ Len(profilePoints) > 1
    /\ params.outputPinCount = 6
    /\ Len(discPathString) = Len(profilePoints) + 1 + 18
    /\ discPathString[Len(profilePoints) + 1].op = "Z"
    /\ discPathString[Len(profilePoints) + 3].rx > 0
    /\ discPathString[Len(discPathString)].op = "A"

(***************************************************************************)
(* Properties of generateDXF, checked under SpecExport.                    *)
(***************************************************************************)
\* a line of a document that is the word or group code text
IsText(line, text) == "text" \in DOMAIN line /\ line.text = text

\* a line of a document that is a decimal number
IsNumber(line) == "decimals" \in DOMAIN line

\* the lines of a document that are the word text
LinesWith(doc, text) == {k \in 1 .. Len(doc) : IsText(doc[k], text)}

\* the number a decimal line of at most four decimals reads as, in 1e-4 mm
NumberValue(line) ==
    LET d == line.decimals
        place == <<1000, 100, 10, 1>>
        RECURSIVE Digits(_)
        Digits(k) == IF k = 0 THEN 0 ELSE d[k] * place[k] + Digits(k - 1)
    IN  (IF line.neg THEN -1 ELSE 1) * (line.whole * 10000 + Digits(Len(d)))

\* lines k .. k + Len(words) - 1 of a document are the given words
WordsAt(doc, k, words) ==
    /\ Len(doc) >= k + Len(words) - 1
    /\ \A j \in 1 .. Len(words) : IsText(doc[k + j - 1], words[j])

\* C22: the document written for n points is the SECTION/ENTITIES header, one
\* POLYLINE on layer CycloidProfile flagged closed, n VERTEX records in the
\* order of the points (each the point's x and y to the nearest 1e-4 mm),
\* one SEQEND, one CIRCLE on layer CenterHole centred at the origin, ENDSEC
\* and EOF last; it is the same for any holes argument and any parameters
\* with the same holeRadius and holeTolerance.
C22_DocumentStructure ==
    download.downloaded =>
        LET doc == download.dxfContent
            points == download.profilePoints
            n == Len(points)
            end == 12 + 10 * n
        IN  /\ Len(doc) = 30 + 10 * n
            /\ WordsAt(doc, 1, <<"0", "SECTION", "2", "ENTITIES">>)
            /\ WordsAt(doc, 5, <<"0", "POLYLINE", "8", "CycloidProfile">>)
            /\ WordsAt(doc, 11, <<"70", "1">>)
            /\ \A k \in 1 .. n :
                   LET at == 12 + 10 * (k - 1)
                   IN  /\ WordsAt(doc, at + 1, <<"0", "VERTEX", "8", "CycloidProfile", "10">>)
                       /\ IsNumber(doc[at + 6])
                       /\ Abs(100 * NumberValue(doc[at + 6]) - points[k].x) <= 50
                       /\ IsText(doc[at + 7], "20")
                       /\ IsNumber(doc[at + 8])
                       /\ Abs(100 * NumberValue(doc[at + 8]) - points[k].y) <= 50
                       /\ IsText(doc[at + 9], "30")
                       /\ IsNumber(doc[at + 10]) /\ NumberValue(doc[at + 10]) = 0
            /\ WordsAt(doc, end + 1, <<"0", "SEQEND">>)
            /\ WordsAt(doc, end + 3, <<"0", "CIRCLE", "8", "CenterHole", "10">>)
            /\ IsText(doc[end + 9], "20") /\ IsText(doc[end + 11], "30")
            /\ \A k \in {end + 8, end + 10, end + 12} :
                   IsNumber(doc[k]) /\ NumberValue(doc[k]) = 0
            /\ IsText(doc[end + 13], "40") /\ IsNumber(doc[end + 14])
            /\ WordsAt(doc, end + 15, <<"0", "ENDSEC", "0", "EOF">>)
            /\ Cardinality(LinesWith(doc, "VERTEX")) = n
            /\ \A word \in {"SECTION", "POLYLINE", "SEQEND", "CIRCLE", "ENDSEC", "EOF"} :
                   Cardinality(LinesWith(doc, word)) = 1
            /\ \A q \in ExportParams :
                   q.holeRadius = params.holeRadius /\ q.holeTolerance = params.holeTolerance
                       => /\ generateDXF(points, generatePinPoints(q), q) = doc
                          /\ generateDXF(points, <<>>, q) = doc

\* a document of several vertices, one of them left of the origin and one
\* off the grid of 1e-4 mm, written for a disc of twelve pins
C22_Witness ==
    /\ download.downloaded
    /\ Len(download.profilePoints) >= 4
    /\ Len(download.dxfContent) = 30 + 10 * Len(download.profilePoints)
    /\ \E k \in 1 .. Len(download.profilePoints) : download.profilePoints[k].x < 0
    /\ \E k \in 1 .. Len(download.profilePoints) : download.profilePoints[k].y % 100 # 0
    /\ Len(download.pinPoints) = 12

\* the line of the radius of the circle, after group code 40
CircleRadiusLine(doc) == doc[Len(doc) - 4]

\* C23: the radius of the CIRCLE record is holeRadius + holeTolerance printed
\* with exactly 4 decimals; for holeRadius 10 and holeTolerance 0.1 it is the
\* text 10.1000.
C23_CircleRadius ==
    download.downloaded =>
        LET radius == CircleRadiusLine(download.dxfContent)
        IN  /\ IsText(download.dxfContent[Len(download.dxfContent) - 5], "40")
            /\ IsNumber(radius)
            /\ Len(radius.decimals) = 4
            /\ NumberValue(radius) = 10 * (params.holeRadius + params.holeTolerance)
            /\ params.holeRadius = 10000 /\ params.holeTolerance = 100
                   => radius = [neg |-> FALSE, whole |-> 10, decimals |-> <<1, 0, 0, 0>>]

\* the document exported for holeRadius 10 and holeTolerance 0.1
C23_Witness ==
    /\ download.downloaded
    /\ params.holeRadius = 10000
    /\ params.holeTolerance = 100
    /\ CircleRadiusLine(download.dxfContent).whole = 10
    /\ CircleRadiusLine(download.dxfContent).decimals = <<1, 0, 0, 0>>

\* C24: every numeric coordinate or radius field of the document (vertex x, y
\* and z, circle centre x, y and z, circle radius) is printed with exactly 4
\* decimal places.
C24_FourDecimals ==
    download.downloaded =>
        \A k \in 1 .. Len(download.dxfContent) :
            IsNumber(download.dxfContent[k]) => Len(download.dxfContent[k].decimals) = 4

(***************************************************************************)
(* Properties of the advisory service and of the AI panel, checked under   *)
(* SpecAssistant, FairAssistant and FairChat.                              *)
(***************************************************************************)
\* C25: none of analyzeDesign, chatWithEngineer and generateDesignParameters
\* rejects to its caller: with the API key missing or the remote call
\* failing, each returns an error text or null.
C25_NeverRejects == settled.kind # "rejected"

\* C28: whenever handleAnalyze or handleGenerate has set loading to true,
\* loading eventually returns to false, whatever the outcome of the call.
C28_LoadingEnds == assistant.loading ~> ~assistant.loading

\* the entries of a chat history written by role
EntriesOf(history, role) == SelectSeq(history, LAMBDA h : h.role = role)

\* the handlers of handleChat waiting for their reply
ChatsInFlight == SelectSeq(pending, LAMBDA w : w.handler = "handleChat")

\* one sequence is the beginning of another
IsPrefix(s, t) == Len(s) <= Len(t) /\ SubSeq(t, 1, Len(s)) = s

\* C29: in the chat, under any interleaving of submissions and replies, a
\* blank submission adds nothing (every user entry is a non-blank line, as
\* typed); every submission has its user entry from the moment it is
\* submitted and is eventually followed by exactly one model entry (as many
\* model entries as submissions answered, each after its user entry, each
\* the reply text or the fixed error text); chatHistory only grows at its
\* end.
C29_ChatHistory ==
    /\ [](LET history == assistant.chatHistory
          IN  /\ \A k \in 1 .. Len(history) :
                     IF history[k].role = "user"
                     THEN Trim(history[k].text) # <<>>
                     ELSE history[k].text \in {<<"reply">>, <<>>, ChatErrorText}
              /\ Len(EntriesOf(history, "model")) + Len(ChatsInFlight)
                     = Len(EntriesOf(history, "user"))
              /\ \A k \in 1 .. Len(ChatsInFlight) :
                     \E j \in 1 .. Len(history) :
                         /\ history[j] = [role |-> "user", text |-> ChatsInFlight[k].newMessage]
                         /\ IsPrefix(ChatsInFlight[k].history, SubSeq(history, 1, j - 1))
              /\ \A k \in 1 .. Len(history) :
                     Len(EntriesOf(SubSeq(history, 1, k), "model"))
                         <= Len(EntriesOf(SubSeq(history, 1, k), "user")))
    /\ [][IsPrefix(assistant.chatHistory, assistant.chatHistory')]_vars
    /\ \A n \in 1 .. MaxMessages :
           (Len(EntriesOf(assistant.chatHistory, "user")) >= n)
               ~> (Len(EntriesOf(assistant.chatHistory, "model")) >= n)

\* two messages answered, one by a reply and one by the error text, and a
\* blank line typed after them
C29_Witness ==
    /\ Len(assistant.chatHistory) = 4
    /\ assistant.chatHistory[2].role = "user"
    /\ assistant.chatHistory[3] = [role |-> "model", text |-> ChatErrorText]
    /\ assistant.chatHistory[4] = [role |-> "model", text |-> <<"reply">>]
    /\ assistant.chatInput = <<" ">>
    /\ pending = <<>>

(***************************************************************************)
(* Properties of the parameters of the App, checked under SpecQuality.     *)
(***************************************************************************)
\* the twelve fields of CycloParams
CycloParamsFields ==
    {"pinCount", "pinCircleRadius", "pinRadius", "eccentricity", "holeRadius",
     "resolution", "tolerance", "holeTolerance", "outputPinCount",
     "outputPinRadius", "outputPinCircleRadius", "driveConfig"}

\* C26: after any sequence of operations of the panels from DEFAULT_PARAMS
\* (slider, drive configuration, preset, machine settings, recommended fix,
\* generated design) the current parameters have all twelve fields.
C26_FullyPopulated == DOMAIN params = CycloParamsFields

\* the warning of the rule that proposes the fix of a label
WarningOfFix(label) ==
    CASE label = "Reduce Eccentricity" -> EccentricityText
      [] label = "Increase Radius" -> EccentricityText
      [] label = "Shrink Pins" -> PinText
      [] label = "Shrink Center Hole" -> WallText

\* C27: for valid parameters, getGeometricQuality on the parameters of a
\* proposed fix other than the first ("Increase Radius", "Shrink Pins",
\* "Shrink Center Hole") no longer gives the warning of the rule the fix
\* comes from, so no fix can be offered again with its warning for ever.
C27_FixClearsItsWarning ==
    ValidParameters(params) =>
        \A i \in 1 .. Len(quality.fixes) :
            quality.fixes[i].label # "Reduce Eccentricity" =>
                LET after == getGeometricQuality(quality.fixes[i].params)
                IN  /\ ~HasWarning(after, WarningOfFix(quality.fixes[i].label))
                    /\ \A j \in 1 .. Len(after.fixes) : after.fixes[j] # quality.fixes[i]

(***************************************************************************)
(* The animation loop of the Visualizer                                    *)
(* (src/components/Visualizer.tsx:37-44, 353-414)                          *)
(*                                                                         *)
(* Every run of the effect makes a closure with its own animationFrameId   *)
(* and t; `effects` keeps them in the order of the runs, the last one      *)
(* being the effect React holds the cleanup of.  A change of one of the    *)
(* dependencies of the effect runs the cleanup of the last run and then    *)
(* the effect again, in one step: the script is single-threaded, and a     *)
(* frame callback runs between two such steps, never inside one.  t is     *)
(* counted in steps of 0.02; the transforms a frame writes to the drawing  *)
(* are not followed.                                                       *)
(***************************************************************************)
\* how many times the effect runs
MaxRenders == 4

\* how many handles requestAnimationFrame gives
MaxFrames == 5

\* if (animationFrameId): a handle is a positive number, undefined is falsy
Truthy(animationFrameId) ==
    animationFrameId # Undefined /\ animationFrameId[1] # 0

\* requestAnimationFrame(animateFrame), asked by the run `effect`
requestAnimationFrame(requests, effect) ==
    [next |-> requests.next + 1,
     pending |-> requests.pending \cup {[handle |-> requests.next, effect |-> effect]}]

\* cancelAnimationFrame(handle)
cancelAnimationFrame(requests, handle) ==
    [requests EXCEPT !.pending = {f \in @ : f.handle # handle}]

\* what the loop would hold had it kept the handle of its first frame only
FirstFrameId(closure, handle) ==
    IF closure.animationFrameId = Undefined THEN Given(handle)
    ELSE closure.animationFrameId

\* animationFrameId = requestAnimationFrame(animateFrame): the latest handle
LatestFrameId(closure, handle) == Given(handle)

\* animateFrame() of the run `effect`: t += 0.02, then the next frame is asked
animateFrame(closures, requests, effect) ==
    [effects |-> [closures EXCEPT
                    ![effect].t = @ + 1,
                    ![effect].animationFrameId =
                        LatestFrameId(closures[effect], requests.next)],
     frames |-> requestAnimationFrame(requests, effect)]

\* the function the effect returns, run for the last run of the effect; an
\* effect that returned early gave React nothing to run
Cleanup(closures, requests) ==
    LET last == Len(closures)
    IN  IF last = 0 \/ ~closures[last].cleanup \/ closures[last].cleaned
        THEN [effects |-> closures, frames |-> requests]
        ELSE [effects |-> [closures EXCEPT ![last].cleaned = TRUE],
              frames |-> IF Truthy(closures[last].animationFrameId)
                         THEN cancelAnimationFrame(requests,
                                  closures[last].animationFrameId[1])
                         ELSE requests]

\* the body of the effect, with the prop `animate`; `sized` says the
\* container has a width and a height
EffectBody(closures, requests, animateProp, sized) ==
    LET closure == [animate |-> animateProp, cleanup |-> sized,
                    animationFrameId |-> Undefined, t |-> 0, cleaned |-> FALSE]
        begun == Append(closures, closure)
    IN  IF sized /\ animateProp
        THEN animateFrame(begun, requests, Len(begun))
        ELSE [effects |-> begun, frames |-> requests]

\* a dependency of the effect changed: React runs the cleanup of the last run
\* and then the effect again
EffectRuns(animateProp, sized) ==
    LET cleaned == Cleanup(effects, frames)
        ran == EffectBody(cleaned.effects, cleaned.frames, animateProp, sized)
    IN  /\ Len(effects) < MaxRenders
        /\ animateProp /\ sized => frames.next <= MaxFrames
        /\ effects' = ran.effects
        /\ frames' = ran.frames

\* what the animation leaves alone, params and the drawing apart
stillVars == <<call, quality, edits, physics, analysis, download, assistantVars>>

\* the Simulate Motion button: setAnimate(!animate)
ToggleAnimate(sized) ==
    /\ mounted
    /\ animate' = ~animate
    /\ EffectRuns(animate', sized)
    /\ UNCHANGED <<params, profilePoints, theoreticalPoints, discPathString,
                   theoreticalPathString, viewMode, mounted, stillVars>>

\* the tolerance view button of the Controls panel
ToggleViewMode(sized) ==
    /\ mounted
    /\ viewMode' = IF viewMode = "tolerance" THEN "standard" ELSE "tolerance"
    /\ EffectRuns(animate, sized)
    /\ UNCHANGED <<params, profilePoints, theoreticalPoints, discPathString,
                   theoreticalPathString, animate, mounted, stillVars>>

\* a control of the Controls panel changes a parameter while the Visualizer
\* is followed
UpdateAnimated(key, value, sized) ==
    /\ mounted
    /\ params[key] # value
    /\ params' = [params EXCEPT ![key] = value]
    /\ VisualizerRender(params')
    /\ EffectRuns(animate, sized)
    /\ UNCHANGED <<animate, viewMode, mounted, stillVars>>

\* the browser runs a pending frame callback: the list gives it up and the
\* callback, animateFrame of the run that asked for it, runs
FrameCallback(f) ==
    LET taken == [frames EXCEPT !.pending = @ \ {f}]
        ran == animateFrame(effects, taken, f.effect)
    IN  /\ f \in frames.pending
        /\ frames.next <= MaxFrames
        /\ effects' = ran.effects
        /\ frames' = ran.frames
        /\ UNCHANGED <<params, profilePoints, theoreticalPoints, discPathString,
                       theoreticalPathString, animate, viewMode, mounted, stillVars>>

\* the Visualizer unmounts: React runs the cleanup of the last run
Unmount ==
    /\ mounted
    /\ mounted' = FALSE
    /\ effects' = Cleanup(effects, frames).effects
    /\ frames' = Cleanup(effects, frames).frames
    /\ UNCHANGED <<params, profilePoints, theoreticalPoints, discPathString,
                   theoreticalPathString, animate, viewMode, stillVars>>

\* the small disc at its two eccentricities
AnimationParams ==
    {p \in PathParams :
        /\ p.outputPinCount = 4 /\ p.outputPinRadius = 1
        /\ p.outputPinCircleRadius = 4 /\ p.holeTolerance = 0
        /\ p.tolerance = 0 /\ p.resolution = 3}

\* the Visualizer mounts with animate false: the effect has run once
InitAnimation ==
    /\ params \in AnimationParams
    /\ profilePoints = generateCycloidProfile(params, Undefined)
    /\ theoreticalPoints = generateCycloidProfile(params, Given(0))
    /\ discPathString = getDiscSVGPath(profilePoints, params)
    /\ theoreticalPathString = getDiscSVGPath(theoreticalPoints, params)
    /\ call = NoCall
    /\ download = NoDownload
    /\ AssistantClosed
    /\ quality = NoQuality
    /\ edits = 0
    /\ physics = NoPhysics
    /\ analysis = NoAnalysis
    /\ animate = FALSE
    /\ viewMode = "standard"
    /\ mounted = TRUE
    /\ \E sized \in BOOLEAN :
        /\ effects = EffectBody(<<>>, NoFrames, FALSE, sized).effects
        /\ frames = EffectBody(<<>>, NoFrames, FALSE, sized).frames

NextAnimation ==
    \/ \E sized \in BOOLEAN : ToggleAnimate(sized)
    \/ \E sized \in BOOLEAN : ToggleViewMode(sized)
    \/ \E v \in PathEccentricities, sized \in BOOLEAN :
            UpdateAnimated("eccentricity", v, sized)
    \/ \E f \in frames.pending : FrameCallback(f)
    \/ Unmount

SpecAnimation == InitAnimation /\ [][NextAnimation]_vars

\* C30: at most one frame callback is pending; one is pending only while
\* animate is true and the Visualizer is mounted; a pending callback belongs
\* to the last run of the effect, which ran with animate true and whose
\* cleanup has not run, so that no callback of a cleaned-up run executes, and
\* the closure of such a run never changes again
C30_OneLoop ==
    /\ [](/\ Cardinality(frames.pending) <= 1
          /\ frames.pending # {} => animate /\ mounted
          /\ \A f \in frames.pending :
                /\ f.effect = Len(effects)
                /\ effects[f.effect].animate
                /\ ~effects[f.effect].cleaned)
    /\ [][\A e \in 1..Len(effects) :
            effects[e].cleaned => effects'[e] = effects[e]]_vars

\* a loop ran two frames and was cleaned up, a later run loops, its second
\* frame pending
C30_Witness ==
    /\ animate
    /\ \E e \in 1..Len(effects) : effects[e].cleaned /\ effects[e].t >= 2
    /\ \E f \in frames.pending : effects[f.effect].t >= 2

====
